---- MODULE Spec2Model ----
(***************************************************************************)
(* A model of the Ansible module ansible/library/pn_ebgp_ospf.py.          *)
(*                                                                         *)
(* The module builds command lines for the Netvisor cli, runs them and     *)
(* parses the text that comes back.  Text is modelled as text: names,      *)
(* addresses and numbers are strings, a command line is the sequence of    *)
(* its argv tokens and a stdout is the sequence of its whitespace          *)
(* separated tokens.  The switch fabric the cli talks to is the record     *)
(* fab; Exec answers a command line from it the way the code expects the   *)
(* cli to answer (which columns a show prints is fixed by how the code     *)
(* slices the answer).                                                     *)
(***************************************************************************)
EXTENDS Integers, Sequences, FiniteSets, TLC

VARIABLES params, fab, log, marks, CHANGED_FLAG, pc, payloads, calls, perturbed, rerun,
          flagged, mutated

vars == <<params, fab, log, marks, CHANGED_FLAG, pc, payloads, calls, perturbed, rerun,
          flagged, mutated>>

----------------------------------------------------------------------------
(* Text helpers: Python's str(), int(), "in" on strings and str.split(sep) *)

Digits == "0123456789"

RECURSIVE StrNat(_)
StrNat(n) ==
    IF n < 10 THEN SubSeq(Digits, n + 1, n + 1)
    ELSE StrNat(n \div 10) \o SubSeq(Digits, (n % 10) + 1, (n % 10) + 1)

Str(n) == IF n < 0 THEN "-" \o StrNat(0 - n) ELSE StrNat(n)

DigitVal(ch) == CHOOSE d \in 0..9 : SubSeq(Digits, d + 1, d + 1) = ch

RECURSIVE IntFrom(_, _, _)
IntFrom(s, i, acc) ==
    IF i > Len(s) THEN acc ELSE IntFrom(s, i + 1, (10 * acc) + DigitVal(SubSeq(s, i, i)))

ToInt(s) == IntFrom(s, 1, 0)

Contains(sub, s) ==
    \E i \in 1..((Len(s) - Len(sub)) + 1) : SubSeq(s, i, (i + Len(sub)) - 1) = sub

RECURSIVE SplitFrom(_, _, _, _)
SplitFrom(s, ch, i, start) ==
    IF i > Len(s) THEN <<SubSeq(s, start, Len(s))>>
    ELSE IF SubSeq(s, i, i) = ch
         THEN <<SubSeq(s, start, i - 1)>> \o SplitFrom(s, ch, i + 1, i + 1)
         ELSE SplitFrom(s, ch, i + 1, start)

Split(s, ch) == SplitFrom(s, ch, 1, 1)

InSeq(x, s) == \E i \in 1..Len(s) : s[i] = x

RECURSIVE Flat(_)
Flat(ss) == IF ss = <<>> THEN <<>> ELSE Head(ss) \o Flat(Tail(ss))

(* 'Success' in <text>: the text is kept as its tokens, and the word has no *)
(* blank in it, so it is in the text iff it is in one of the tokens.        *)
HasSuccess(toks) == \E i \in 1..Len(toks) : Contains("Success", toks[i])

----------------------------------------------------------------------------
(* The cli of the fabric.                                                  *)

(* The command line without the launcher tokens pn_cli puts in front. *)
Body(argv) ==
    IF Len(argv) >= 3 /\ argv[3] = "--user" THEN SubSeq(argv, 5, Len(argv))
    ELSE SubSeq(argv, 3, Len(argv))

HasKey(b, key) == InSeq(key, b)

Arg(b, key) ==
    IF \E i \in 1..(Len(b) - 1) : b[i] = key
    THEN b[(CHOOSE i \in 1..(Len(b) - 1) : b[i] = key /\ \A j \in 1..(i - 1) : b[j] # key) + 1]
    ELSE ""

(* The filters of a show are the words in front of "format". *)
Filters(b) ==
    IF HasKey(b, "format")
    THEN SubSeq(b, 1, (CHOOSE i \in 1..Len(b) : b[i] = "format" /\ \A j \in 1..(i - 1) : b[j] # "format") - 1)
    ELSE b

(* A filter of a show: absent, or equal to the column. *)
Sel(b, key, val) == (~HasKey(Filters(b), key)) \/ Arg(Filters(b), key) = val

Addr(ip) == Split(ip, "/")[1]

(* An ip filter without a mask selects by address. *)
SelIp(b, ip) ==
    LET want == Arg(Filters(b), "ip")
    IN  (~HasKey(Filters(b), "ip")) \/ want = ip
            \/ ((~Contains("/", want)) /\ want = Addr(ip))

Col(v) == IF v = "" THEN <<>> ELSE <<v>>

Rows(table, Keep(_), Cells(_)) ==
    LET kept == SelectSeq(table, Keep)
    IN  Flat([i \in 1..Len(kept) |-> Cells(kept[i])])

(* The rows of a table kept as a set, in the order the cli lists them. *)
RECURSIVE Listed(_)
Listed(S) ==
    IF S = {} THEN <<>>
    ELSE LET r == CHOOSE x \in S : TRUE IN <<r>> \o Listed(S \ {r})

VrouterNames(f) == {f.vrouters[i].name : i \in 1..Len(f.vrouters)}

VrouterAt(f, name) == f.vrouters[CHOOSE i \in 1..Len(f.vrouters) : f.vrouters[i].name = name]

Fmt(b) == Arg(b, "format")

ShowVrouter(f, b) ==
    LET Keep(r) == Sel(b, "name", r.name) /\ Sel(b, "location", r.loc)
        Cells(r) == IF Fmt(b) = "name" THEN <<r.name>>
                    ELSE IF Fmt(b) = "location" THEN <<r.loc>>
                    ELSE Col(r.as)
    IN  Rows(f.vrouters, Keep, Cells)

ShowCluster(f, b) ==
    LET Keep(r) == /\ Sel(b, "name", r.name)
                   /\ Sel(b, "cluster-node-1", r.n1)
                   /\ Sel(b, "cluster-node-2", r.n2)
        Cells(r) == IF Fmt(b) = "name" THEN <<r.name>>
                    ELSE IF Fmt(b) = "cluster-node-1" THEN <<r.n1>>
                    ELSE <<r.n2>>
    IN  Rows(f.clusters, Keep, Cells)

ShowVlan(f, sw, b) == f.vlans[sw]

ShowVrouterInterface(f, b) ==
    LET Keep(r) == /\ Sel(b, "vrouter-name", r.vr)
                   /\ Sel(b, "l3-port", r.port)
                   /\ Sel(b, "vlan", r.vlan)
                   /\ SelIp(b, r.ip)
        Cells(r) == <<r.vr>> \o
                    (IF Fmt(b) = "l3-port" THEN Col(r.port)
                     ELSE IF Fmt(b) = "ip" THEN <<r.ip>>
                     ELSE IF Fmt(b) = "nic" THEN <<r.nic>>
                     ELSE <<VrouterAt(f, r.vr).loc>>)
    IN  Rows(f.ifs, Keep, Cells)

ShowVrouterLoopback(f, b) ==
    LET Keep(r) == Sel(b, "vrouter-name", r.vr)
        Cells(r) == <<r.vr, r.ip>>
    IN  Rows(f.loops, Keep, Cells)

ShowVrouterBgp(f, b) ==
    LET Keep(r) == /\ Sel(b, "vrouter-name", r.vr)
                   /\ Sel(b, "remote-as", r.as)
                   /\ Sel(b, "neighbor", r.nbr)
        Cells(r) == <<r.vr, VrouterAt(f, r.vr).loc>>
    IN  Rows(Listed(f.bgp), Keep, Cells)

ShowVrouterOspf(f, b) ==
    LET Keep(r) == Sel(b, "vrouter-name", r.vr) /\ Sel(b, "network", r.net)
        Cells(r) == <<r.vr, VrouterAt(f, r.vr).loc>>
    IN  Rows(Listed(f.ospf), Keep, Cells)

ShowPort(f, sw, b) ==
    LET Keep(r) == r.sw = sw /\ Sel(b, "port", r.port)
        Cells(r) == IF Fmt(b) = "hostname" THEN <<r.hostname>> ELSE <<r.rport>>
    IN  Rows(f.ports, Keep, Cells)

ShowLldp(f, sw, b) == f.lldp[sw]

Ok(out, f) == [out |-> out, err |-> "", fab |-> f]

Refuse(f, why) == [out |-> <<>>, err |-> why, fab |-> f]

VrouterIndex(f, name) == CHOOSE i \in 1..Len(f.vrouters) : f.vrouters[i].name = name

VrouterModify(f, b) ==
    LET v == Arg(b, "name")
        i == VrouterIndex(f, v)
    IN  IF v \notin VrouterNames(f) THEN Refuse(f, "vrouter-modify: vrouter not found")
        ELSE IF HasKey(b, "bgp-as")
             THEN Ok(<<>>, [f EXCEPT !.vrouters[i].as = Arg(b, "bgp-as")])
        ELSE IF HasKey(b, "router-id")
             THEN Ok(<<>>, [f EXCEPT !.vrouters[i].rid = Arg(b, "router-id")])
        ELSE IF HasKey(b, "bgp-redistribute")
             THEN Ok(<<>>, [f EXCEPT !.vrouters[i].redis = Arg(b, "bgp-redistribute")])
        ELSE IF HasKey(b, "bgp-max-paths")
             THEN Ok(<<>>, [f EXCEPT !.vrouters[i].maxp = Arg(b, "bgp-max-paths")])
        ELSE Ok(<<>>, [f EXCEPT !.vrouters[i].ospfr = Arg(b, "ospf-redistribute")])

VlanCreate(f, sw, b) ==
    IF InSeq(Arg(b, "id"), f.vlans[sw]) THEN Refuse(f, "vlan-create: vlan exists")
    ELSE Ok(<<>>, [f EXCEPT !.vlans[sw] = Append(@, Arg(b, "id"))])

VrouterInterfaceAdd(f, b) ==
    LET v == Arg(b, "vrouter-name")
        row == [vr |-> v, ip |-> Arg(b, "ip"), vlan |-> Arg(b, "vlan"), port |-> "",
                nic |-> "eth0." \o Arg(b, "vlan"), bfd |-> FALSE]
    IN  IF v \notin VrouterNames(f)
        THEN Refuse(f, "vrouter-interface-add: vrouter not found")
        ELSE IF \E i \in 1..Len(f.ifs) : f.ifs[i].vr = v /\ f.ifs[i].ip = row.ip
        THEN Refuse(f, "vrouter-interface-add: interface exists")
        ELSE Ok(<<>>, [f EXCEPT !.ifs = Append(@, row)])

VrouterInterfaceConfigModify(f, b) ==
    LET v == Arg(b, "vrouter-name")
        hit == {i \in 1..Len(f.ifs) : f.ifs[i].vr = v /\ f.ifs[i].nic = Arg(b, "nic")}
    IN  IF hit = {} THEN Refuse(f, "vrouter-interface-config-modify: no such interface")
        ELSE Ok(<<>>, [f EXCEPT !.ifs = [i \in 1..Len(f.ifs) |->
                          IF i \in hit THEN [f.ifs[i] EXCEPT !.bfd = TRUE] ELSE f.ifs[i]]])

VrouterBgpAdd(f, b) ==
    LET v == Arg(b, "vrouter-name")
        row == [vr |-> v, nbr |-> Arg(b, "neighbor"), as |-> Arg(b, "remote-as"),
                bfd |-> HasKey(b, "bfd"), nhs |-> HasKey(b, "next-hop-self"),
                allowas |-> HasKey(b, "allowas-in")]
    IN  IF v \notin VrouterNames(f) THEN Refuse(f, "vrouter-bgp-add: vrouter not found")
        ELSE IF VrouterAt(f, v).as = "" THEN Refuse(f, "vrouter-bgp-add: no bgp-as")
        ELSE IF \E r \in f.bgp : r.vr = v /\ r.nbr = row.nbr
        THEN Refuse(f, "vrouter-bgp-add: neighbor exists")
        ELSE Ok(<<>>, [f EXCEPT !.bgp = @ \cup {row}])

VrouterOspfAdd(f, b) ==
    LET v == Arg(b, "vrouter-name")
        row == [vr |-> v, net |-> Arg(b, "network"), area |-> Arg(b, "ospf-area")]
    IN  IF v \notin VrouterNames(f) THEN Refuse(f, "vrouter-ospf-add: vrouter not found")
        ELSE IF \E r \in f.ospf : r.vr = v /\ r.net = row.net
        THEN Refuse(f, "vrouter-ospf-add: network exists")
        ELSE Ok(<<>>, [f EXCEPT !.ospf = @ \cup {row}])

Clustered(f) ==
    {f.clusters[i].n1 : i \in 1..Len(f.clusters)} \cup
    {f.clusters[i].n2 : i \in 1..Len(f.clusters)}

ClusterCreate(f, b) ==
    LET row == [name |-> Arg(b, "name"), n1 |-> Arg(b, "cluster-node-1"),
                n2 |-> Arg(b, "cluster-node-2")]
    IN  IF \E i \in 1..Len(f.clusters) : f.clusters[i].name = row.name
        THEN Refuse(f, "cluster-create: cluster exists")
        ELSE IF {row.n1, row.n2} \cap Clustered(f) # {} \/ row.n1 = row.n2
                  \/ ~({row.n1, row.n2} \subseteq f.switches)
        THEN Refuse(f, "cluster-create: bad cluster node")
        ELSE Ok(<<>>, [f EXCEPT !.clusters = Append(@, row)])

Mutating == {"vrouter-modify", "vlan-create", "vrouter-interface-add", "vrouter-bgp-add",
             "vrouter-ospf-add", "cluster-create", "vrouter-interface-config-modify"}

(* The command word and, for "switch <name> <command> ...", the switch. *)
OnSwitch(b) == Len(b) >= 2 /\ b[1] = "switch"

Verb(b) == IF OnSwitch(b) THEN (IF Len(b) >= 3 THEN b[3] ELSE "") ELSE (IF Len(b) >= 1 THEN b[1] ELSE "")

Exec(f, argv) ==
    LET b == Body(argv)
        sw == IF OnSwitch(b) THEN b[2] ELSE ""
        op == Verb(b)
    IN  IF OnSwitch(b) /\ sw \notin f.switches THEN Refuse(f, "switch not found")
        ELSE IF op = "vrouter-show" THEN Ok(ShowVrouter(f, b), f)
        ELSE IF op = "cluster-show" THEN Ok(ShowCluster(f, b), f)
        ELSE IF op = "vlan-show" THEN Ok(ShowVlan(f, sw, b), f)
        ELSE IF op = "vrouter-interface-show" THEN Ok(ShowVrouterInterface(f, b), f)
        ELSE IF op = "vrouter-loopback-interface-show" THEN Ok(ShowVrouterLoopback(f, b), f)
        ELSE IF op = "vrouter-bgp-show" THEN Ok(ShowVrouterBgp(f, b), f)
        ELSE IF op = "vrouter-ospf-show" THEN Ok(ShowVrouterOspf(f, b), f)
        ELSE IF op = "port-show" THEN Ok(ShowPort(f, sw, b), f)
        ELSE IF op = "lldp-show" THEN Ok(ShowLldp(f, sw, b), f)
        ELSE IF op = "vrouter-modify" THEN VrouterModify(f, b)
        ELSE IF op = "vlan-create" THEN VlanCreate(f, sw, b)
        ELSE IF op = "vrouter-interface-add" THEN VrouterInterfaceAdd(f, b)
        ELSE IF op = "vrouter-interface-config-modify" THEN VrouterInterfaceConfigModify(f, b)
        ELSE IF op = "vrouter-bgp-add" THEN VrouterBgpAdd(f, b)
        ELSE IF op = "vrouter-ospf-add" THEN VrouterOspfAdd(f, b)
        ELSE IF op = "cluster-create" THEN ClusterCreate(f, b)
        ELSE Refuse(f, "unknown command")

----------------------------------------------------------------------------
(* The run.  A step of main threads a context c through its run_cli calls: *)
(* c.fab the fabric, c.log the commands the step has run with their        *)
(* answers, c.flags the list CHANGED_FLAG, c.marks where in the step each  *)
(* flag was recorded, c.pay the payloads handed to exit_json, c.ret the    *)
(* value the last run_cli returned, c.loc the locals a loop hands back,    *)
(* and c.st: "run", "exit" once exit_json has ended the process, "crash"   *)
(* once a Python exception has.  c.fault is the one answer of the step the *)
(* cli perturbs: c.fault.at counts the step's commands, 0 for none.        *)

NoFault == [at |-> 0, kind |-> "none", rc |-> 0]

Halted(c) == c.st # "run"

(* The statements after c: they run unless the process has ended. *)
Then(c, K(_)) == IF Halted(c) THEN c ELSE K(c)

Crash(c) == IF Halted(c) THEN c ELSE [c EXCEPT !.st = "crash"]

Flag(c, v) ==
    IF Halted(c) THEN c
    ELSE [c EXCEPT !.flags = Append(@, v),
                   !.marks = Append(@, [n |-> Len(c.log), v |-> v, by |-> c.fn])]

(* if 'Success' in run_cli(module, cli): CHANGED_FLAG.append(True) *)
IfSuccess(c) == IF (~Halted(c)) /\ HasSuccess(c.ret) THEN Flag(c, TRUE) ELSE c

Enter(c, fn) == IF Halted(c) THEN c ELSE [c EXCEPT !.fn = fn]

pn_cli ==
    IF params.pn_cliusername # "" /\ params.pn_clipassword # ""
    THEN <<"/usr/bin/cli", "--quiet", "--user",
           params.pn_cliusername \o ":" \o params.pn_clipassword>>
    ELSE <<"/usr/bin/cli", "--quiet">>

(* What the cli answers where the fabric answers norm: norm, or the        *)
(* perturbed answer.  "error": nothing is done, stderr only.  "warn": the  *)
(* command is carried out and also writes to stderr.  "text": a command    *)
(* that changes the fabric prints a confirmation that lacks 'Success'.     *)
Perturb(c, cli, norm) ==
    LET kind == IF c.fault.at = c.n + 1 THEN c.fault.kind ELSE "none"
    IN  IF kind = "error"
        THEN [out |-> <<>>, err |-> "cli: error ", fab |-> c.fab, rc |-> c.fault.rc,
              hit |-> TRUE]
        ELSE IF kind = "warn"
        THEN [out |-> norm.out, err |-> IF norm.err = "" THEN " cli: warning" ELSE norm.err,
              fab |-> norm.fab, rc |-> c.fault.rc, hit |-> TRUE]
        ELSE IF kind = "text" /\ norm.err = "" /\ Verb(Body(cli)) \in Mutating
        THEN [out |-> <<"Done">>, err |-> "", fab |-> norm.fab, rc |-> 0, hit |-> TRUE]
        ELSE [out |-> norm.out, err |-> norm.err, fab |-> norm.fab,
              rc |-> IF norm.err = "" THEN 0 ELSE 1, hit |-> FALSE]

(* rc, out, err = module.run_command(cli) *)
run_command(c, cli) == Perturb(c, cli, Exec(c.fab, cli))

(* str.strip() of blanks. *)
RECURSIVE Strip(_)
Strip(s) ==
    IF s = "" THEN s
    ELSE IF SubSeq(s, 1, 1) = " " THEN Strip(SubSeq(s, 2, Len(s)))
    ELSE IF SubSeq(s, Len(s), Len(s)) = " " THEN Strip(SubSeq(s, 1, Len(s) - 1))
    ELSE s

exit_json(c, payload) == [c EXCEPT !.pay = Append(@, payload), !.st = "exit"]

FailurePayload(err, cli) ==
    [error |-> "1", failed |-> TRUE, stderr |-> Strip(err),
     msg |-> <<"Operation Failed: ", cli>>, changed |-> FALSE]

(* The command has run and answered r. *)
Ran(c, cli, r) ==
    [c EXCEPT !.fab = r.fab, !.n = @ + 1, !.hit = @ \/ r.hit,
              !.log = Append(@, [argv |-> cli, out |-> r.out, err |-> r.err,
                                 rc |-> r.rc, by |-> c.fn])]

(* run_cli without the branch that ends the module. *)
run_cli_returns(c, r, cli) ==
    IF r.out # <<>> THEN [c EXCEPT !.ret = r.out]
    ELSE [c EXCEPT !.ret = <<"Success">>]

run_cli_result(c, r, cli) ==
    IF r.out # <<>> THEN [c EXCEPT !.ret = r.out]
    ELSE IF r.err # "" THEN exit_json(c, FailurePayload(r.err, cli))
    ELSE [c EXCEPT !.ret = <<"Success">>]

run_cli_answered(c, cli, r) == run_cli_result(Ran(c, cli, r), r, cli)

run_cli(c, cli) == IF Halted(c) THEN c ELSE run_cli_answered(c, cli, run_command(c, cli))

----------------------------------------------------------------------------
(* The steps that write one setting to every vrouter.                      *)

RECURSIVE bgp_redistribute_loop(_, _, _, _)
bgp_redistribute_loop(c, vrouter_names, i, bgp_redis) ==
    IF Halted(c) \/ i > Len(vrouter_names) THEN c
    ELSE bgp_redistribute_loop(
             IfSuccess(run_cli(c, pn_cli \o <<"vrouter-modify", "name", vrouter_names[i],
                                              "bgp-redistribute", bgp_redis>>)),
             vrouter_names, i + 1, bgp_redis)

bgp_redistribute(c, bgp_redis) ==
    Then(run_cli(Enter(c, "bgp_redistribute"),
                 pn_cli \o <<"vrouter-show", "format", "name", "no-show-headers">>),
         LAMBDA c1 : bgp_redistribute_loop(c1, c1.ret, 1, bgp_redis))

RECURSIVE bgp_maxpath_loop(_, _, _, _)
bgp_maxpath_loop(c, vrouter_names, i, bgp_max) ==
    IF Halted(c) \/ i > Len(vrouter_names) THEN c
    ELSE bgp_maxpath_loop(
             IfSuccess(run_cli(c, pn_cli \o <<"vrouter-modify", "name", vrouter_names[i],
                                              "bgp-max-paths", bgp_max>>)),
             vrouter_names, i + 1, bgp_max)

bgp_maxpath(c, bgp_max) ==
    Then(run_cli(Enter(c, "bgp_maxpath"),
                 pn_cli \o <<"vrouter-show", "format", "name", "no-show-headers">>),
         LAMBDA c1 : bgp_maxpath_loop(c1, c1.ret, 1, bgp_max))

RECURSIVE ospf_redistribute_loop(_, _, _)
ospf_redistribute_loop(c, vrouter_names, i) ==
    IF Halted(c) \/ i > Len(vrouter_names) THEN c
    ELSE ospf_redistribute_loop(
             IfSuccess(run_cli(c, pn_cli \o <<"vrouter-modify", "name", vrouter_names[i],
                                              "ospf-redistribute", "static,connected">>)),
             vrouter_names, i + 1)

ospf_redistribute(c) ==
    Then(run_cli(Enter(c, "ospf_redistribute"),
                 pn_cli \o <<"vrouter-show", "format", "name", "no-show-headers">>),
         LAMBDA c1 : ospf_redistribute_loop(c1, c1.ret, 1))

(* list.remove(x): the list without the first x; ValueError when x is not in it. *)
Remove(s, x) ==
    LET k == CHOOSE i \in 1..Len(s) : s[i] = x /\ \A j \in 1..(i - 1) : s[j] # x
    IN  SubSeq(s, 1, k - 1) \o SubSeq(s, k + 1, Len(s))

assign_router_id_modify(c, vrouter, loopback_ip) ==
    IF loopback_ip = <<>> THEN Crash(c)
    ELSE IfSuccess(run_cli(c, pn_cli \o <<"vrouter-modify", "name", vrouter, "router-id",
                                          loopback_ip[1]>>))

RECURSIVE assign_router_id_loop(_, _, _)
assign_router_id_loop(c, vrouter_names, i) ==
    IF Halted(c) \/ i > Len(vrouter_names) THEN c
    ELSE assign_router_id_loop(
             Then(run_cli(c, pn_cli \o <<"vrouter-loopback-interface-show", "vrouter-name",
                                         vrouter_names[i], "format", "ip",
                                         "no-show-headers">>),
                  LAMBDA c1 :
                    IF ~InSeq(vrouter_names[i], c1.ret) THEN Crash(c1)
                    ELSE assign_router_id_modify(c1, vrouter_names[i],
                                                 Remove(c1.ret, vrouter_names[i]))),
             vrouter_names, i + 1)

assign_router_id(c) ==
    Then(run_cli(Enter(c, "assign_router_id"),
                 pn_cli \o <<"vrouter-show", "format", "name", "no-show-headers">>),
         LAMBDA c1 : IF Len(c1.ret) > 0 THEN assign_router_id_loop(c1, c1.ret, 1)
                     ELSE Flag(c1, FALSE))

----------------------------------------------------------------------------
(* list(set(x)): the distinct elements of x in an order Python chooses.    *)
(* The order is the oracle ord: a rotation of the elements, read forwards  *)
(* or backwards (every order of a set of up to three elements).            *)

RECURSIVE Dedup(_)
Dedup(x) ==
    IF x = <<>> THEN <<>>
    ELSE LET d == Dedup(SubSeq(x, 1, Len(x) - 1))
         IN  IF InSeq(x[Len(x)], d) THEN d ELSE Append(d, x[Len(x)])

Reverse(x) == [i \in 1..Len(x) |-> x[(Len(x) + 1) - i]]

Rotate(d, r) == SubSeq(d, r + 1, Len(d)) \o SubSeq(d, 1, r)

Ordered(d, ord) ==
    IF d = <<>> THEN d
    ELSE IF ord.rev THEN Reverse(Rotate(d, ord.rot % Len(d)))
    ELSE Rotate(d, ord.rot % Len(d))

ListSet(x, ord) == Ordered(Dedup(x), ord)

----------------------------------------------------------------------------
(* Leaf clusters.                                                          *)

(* leaf_no_cluster without its test: every leaf is handed back. *)
leaf_no_cluster_all(c, leaf_list) ==
    Then(run_cli(c, pn_cli \o <<"cluster-show", "format", "cluster-node-1",
                                "no-show-headers">>),
         LAMBDA c1 :
    Then(run_cli(c1, pn_cli \o <<"cluster-show", "format", "cluster-node-2",
                                 "no-show-headers">>),
         LAMBDA c2 : [c2 EXCEPT !.loc = leaf_list]))

(* Hands back (in c.loc) the leaves that are in no cluster. *)
leaf_no_cluster(c, leaf_list) ==
    Then(run_cli(c, pn_cli \o <<"cluster-show", "format", "cluster-node-1",
                                "no-show-headers">>),
         LAMBDA c1 :
    Then(run_cli(c1, pn_cli \o <<"cluster-show", "format", "cluster-node-2",
                                 "no-show-headers">>),
         LAMBDA c2 :
           LET Unclustered(leaf) == (~InSeq(leaf, c1.ret)) /\ (~InSeq(leaf, c2.ret))
           IN  [c2 EXCEPT !.loc = SelectSeq(leaf_list, Unclustered)]))

(* Returns (in c.loc) the message, or "None" when the function falls off its end. *)
create_cluster(c, switch, name, node1, node2) ==
    Enter(
    Then(run_cli(Enter(c, "create_cluster"),
                 pn_cli \o <<"switch", node1, "cluster-show", "format", "name",
                             "no-show-headers">>),
         LAMBDA c1 :
           IF ~InSeq(name, c1.ret)
           THEN Then(run_cli(c1, pn_cli \o <<"switch", switch, "cluster-create", "name", name,
                                             "cluster-node-1", node1, "cluster-node-2",
                                             node2>>),
                     LAMBDA c2 :
                       IF HasSuccess(c2.ret)
                       THEN [Flag(c2, TRUE) EXCEPT !.loc = "created successfully"]
                       ELSE [c2 EXCEPT !.loc = "None"])
           ELSE [Flag(c1, TRUE) EXCEPT !.loc = "already exists"]),
    c.fn)

(* The inner while: hands back (in c.loc) the leaves still without a cluster. *)
RECURSIVE leaf_cluster_pairing(_, _, _, _, _)
leaf_cluster_pairing(c, non_cluster_leaf, node1, system_names, cluster_count) ==
    IF Halted(c) THEN c
    ELSE IF cluster_count > Len(system_names) THEN [c EXCEPT !.loc = non_cluster_leaf]
    ELSE IF InSeq(system_names[cluster_count], params.pn_spine_list)
    THEN leaf_cluster_pairing(c, non_cluster_leaf, node1, system_names, cluster_count + 1)
    ELSE IF ~InSeq(system_names[cluster_count], non_cluster_leaf)
    THEN leaf_cluster_pairing(Flag(c, FALSE), non_cluster_leaf, node1, system_names,
                              cluster_count + 1)
    ELSE Then(create_cluster(c, system_names[cluster_count],
                             node1 \o "-to-" \o system_names[cluster_count] \o "-cluster",
                             node1, system_names[cluster_count]),
              LAMBDA c1 :
                IF c1.loc = "None" THEN Crash(c1)
                ELSE [c1 EXCEPT !.loc = Remove(non_cluster_leaf,
                                               system_names[cluster_count])])

RECURSIVE leaf_cluster_formation(_, _, _)
leaf_cluster_formation(c, non_cluster_leaf, ord) ==
    IF Halted(c) \/ Len(non_cluster_leaf) = 0 THEN c
    ELSE Then(run_cli(c, pn_cli \o <<"switch", non_cluster_leaf[1], "lldp-show", "format",
                                     "sys-name", "no-show-headers">>),
              LAMBDA c1 :
         Then(leaf_cluster_pairing(c1, Remove(non_cluster_leaf, non_cluster_leaf[1]),
                                   non_cluster_leaf[1], ListSet(c1.ret, ord), 1),
              LAMBDA c2 : leaf_cluster_formation(c2, c2.loc, ord)))

create_leaf_cluster(c, ord) ==
    Then(leaf_no_cluster(Enter(c, "create_leaf_cluster"), params.pn_leaf_list),
         LAMBDA c1 : leaf_cluster_formation(c1, c1.loc, ord))

----------------------------------------------------------------------------
(* BGP AS numbers.  c.loc carries modified_vrouters.                       *)

(* if 'Success' in run_cli(...): CHANGED_FLAG.append(True); modified_vrouters.append(v) *)
Modified(c, v) ==
    IF (~Halted(c)) /\ HasSuccess(c.ret)
    THEN [Flag(c, TRUE) EXCEPT !.loc = Append(c.loc, v)]
    ELSE c

assigning_bgp_as_peer(c, cluster_node_1, cluster_node_2, bgp_leaf) ==
    LET vrouter_name == IF Contains("Success", cluster_node_2)
                        THEN cluster_node_1 \o "-vrouter"
                        ELSE cluster_node_2 \o "-vrouter"
    IN  Modified(run_cli(c, pn_cli \o <<"vrouter-modify", "name", vrouter_name, "bgp-as",
                                        Str(bgp_leaf)>>),
                 vrouter_name)

(* The loop over cluster_list. *)
RECURSIVE assigning_bgp_as_clusters(_, _, _, _, _)
assigning_bgp_as_clusters(c, cluster_list, i, switch_name, bgp_leaf) ==
    IF Halted(c) \/ i > Len(cluster_list) THEN c
    ELSE IF ~Contains(switch_name, cluster_list[i])
    THEN assigning_bgp_as_clusters(c, cluster_list, i + 1, switch_name, bgp_leaf)
    ELSE assigning_bgp_as_clusters(
             Then(run_cli(c, pn_cli \o <<"cluster-show", "cluster-node-1", switch_name,
                                         "format", "cluster-node-2", "no-show-headers">>),
                  LAMBDA c1 :
             Then(run_cli(c1, pn_cli \o <<"cluster-show", "cluster-node-2", switch_name,
                                          "format", "cluster-node-1", "no-show-headers">>),
                  LAMBDA c2 :
                    assigning_bgp_as_peer(c2, c2.ret[1], c1.ret[1], bgp_leaf))),
             cluster_list, i + 1, switch_name, bgp_leaf)

assigning_bgp_as_leaf(c, vrouter, switch_name, bgp_leaf) ==
    Then(run_cli(Modified(run_cli(c, pn_cli \o <<"vrouter-modify", "name", vrouter, "bgp-as",
                                                 Str(bgp_leaf)>>),
                          vrouter),
                 pn_cli \o <<"cluster-show", "format", "name", "no-show-headers">>),
         LAMBDA c3 : assigning_bgp_as_clusters(c3, c3.ret, 1, switch_name, bgp_leaf))

assigning_bgp_as_spine(c, vrouter, switch_name, bgp_spine) ==
    IF InSeq(switch_name, params.pn_spine_list)
    THEN IfSuccess(run_cli(c, pn_cli \o <<"vrouter-modify", "name", vrouter, "bgp-as",
                                          bgp_spine>>))
    ELSE c

RECURSIVE assigning_bgp_as_loop(_, _, _, _, _)
assigning_bgp_as_loop(c, vrouter_names, i, bgp_spine, bgp_leaf) ==
    IF Halted(c) \/ i > Len(vrouter_names) THEN c
    ELSE Then(run_cli(c, pn_cli \o <<"vrouter-show", "name", vrouter_names[i], "format",
                                     "location", "no-show-headers">>),
              LAMBDA c1 :
         Then(assigning_bgp_as_spine(c1, vrouter_names[i], c1.ret[1], bgp_spine),
              LAMBDA c2 :
                IF InSeq(c1.ret[1], params.pn_leaf_list) /\ ~InSeq(vrouter_names[i], c2.loc)
                THEN assigning_bgp_as_loop(
                         assigning_bgp_as_leaf(c2, vrouter_names[i], c1.ret[1], bgp_leaf),
                         vrouter_names, i + 1, bgp_spine, bgp_leaf + 1)
                ELSE assigning_bgp_as_loop(c2, vrouter_names, i + 1, bgp_spine, bgp_leaf)))

(* assigning_bgp_as without the "+ 1" of bgp_leaf = int(bgp_spine) + 1. *)
assigning_bgp_as_from_base(c, bgp_spine) ==
    Then(run_cli(Enter(c, "assigning_bgp_as"),
                 pn_cli \o <<"vrouter-show", "format", "name", "no-show-headers">>),
         LAMBDA c1 :
           IF Len(c1.ret) > 0
           THEN assigning_bgp_as_loop([c1 EXCEPT !.loc = <<>>], c1.ret, 1, bgp_spine,
                                      ToInt(bgp_spine))
           ELSE Flag(c1, FALSE))

assigning_bgp_as(c, bgp_spine) ==
    Then(run_cli(Enter(c, "assigning_bgp_as"),
                 pn_cli \o <<"vrouter-show", "format", "name", "no-show-headers">>),
         LAMBDA c1 :
           IF Len(c1.ret) > 0
           THEN assigning_bgp_as_loop([c1 EXCEPT !.loc = <<>>], c1.ret, 1, bgp_spine,
                                      ToInt(bgp_spine) + 1)
           ELSE Flag(c1, FALSE))

----------------------------------------------------------------------------
(* iBGP between the two nodes of a leaf cluster.                           *)

vrouter_interface_ibgp_add(c, switch_name, interface_ip, neighbor_ip_in) ==
    Enter(
    Then(run_cli(Enter(c, "vrouter_interface_ibgp_add"),
                 pn_cli \o <<"switch", switch_name, "vlan-show", "format", "id",
                             "no-show-headers">>),
         LAMBDA c1 :
    Then(IF ~InSeq(params.pn_ibgp_vlan, c1.ret)
         THEN Flag(run_cli(c1, pn_cli \o <<"switch", switch_name, "vlan-create", "id",
                                           params.pn_ibgp_vlan, "scope", "local">>), TRUE)
         ELSE Flag(c1, FALSE),
         LAMBDA c2 :
    Then(run_cli(c2, pn_cli \o <<"vrouter-show", "location", switch_name, "format", "name",
                                 "no-show-headers">>),
         LAMBDA c3 :
    Then(run_cli(c3, pn_cli \o <<"vrouter-show", "name", c3.ret[1], "format", "bgp-as,",
                                 "no-show-headers">>),
         LAMBDA c4 :
    Then(run_cli(c4, pn_cli \o <<"vrouter-interface-show", "ip", interface_ip, "vlan",
                                 params.pn_ibgp_vlan, "format", "switch",
                                 "no-show-headers">>),
         LAMBDA c5 :
    Then(IF ~InSeq(c3.ret[1], c5.ret)
         THEN Flag(run_cli(c5, pn_cli \o <<"vrouter-interface-add", "vrouter-name",
                                           c3.ret[1], "ip", interface_ip, "vlan",
                                           params.pn_ibgp_vlan>>), TRUE)
         ELSE Flag(c5, FALSE),
         LAMBDA c6 :
    Then(run_cli(c6, pn_cli \o <<"vrouter-bgp-show", "remote-as", c4.ret[1], "neighbor",
                                 Split(neighbor_ip_in, "/")[1], "format", "switch",
                                 "no-show-headers">>),
         LAMBDA c7 :
           IF ~InSeq(c3.ret[1], c7.ret)
           THEN Flag(run_cli(c7, pn_cli \o <<"vrouter-bgp-add", "vrouter-name", c3.ret[1],
                                             "neighbor", Split(neighbor_ip_in, "/")[1],
                                             "remote-as", c4.ret[1], "next-hop-self">>),
                     TRUE)
           ELSE Flag(c7, FALSE)))))))),
    c.fn)

(* The pair with ip1 handed to both nodes. *)
assigning_ibgp_interface_pair_same(c, cluster, ip1, ip2, cluster_node_1) ==
    Then(run_cli(c, pn_cli \o <<"cluster-show", "name", cluster, "format", "cluster-node-2",
                                "no-show-headers">>),
         LAMBDA c2 :
           vrouter_interface_ibgp_add(
               vrouter_interface_ibgp_add(c2, cluster_node_1, ip1, ip2),
               c2.ret[1], ip1, ip2))

assigning_ibgp_interface_pair(c, cluster, ip1, ip2, cluster_node_1) ==
    Then(run_cli(c, pn_cli \o <<"cluster-show", "name", cluster, "format", "cluster-node-2",
                                "no-show-headers">>),
         LAMBDA c2 :
           vrouter_interface_ibgp_add(
               vrouter_interface_ibgp_add(c2, cluster_node_1, ip1, ip2),
               c2.ret[1], ip2, ip1))

RECURSIVE assigning_ibgp_interface_loop(_, _, _, _, _)
assigning_ibgp_interface_loop(c, cluster_list, i, static_part, subnet_count) ==
    IF Halted(c) \/ i > Len(cluster_list) THEN c
    ELSE Then(run_cli(c, pn_cli \o <<"cluster-show", "name", cluster_list[i], "format",
                                     "cluster-node-1", "no-show-headers">>),
              LAMBDA c1 :
                IF (~InSeq(c1.ret[1], params.pn_spine_list))
                     /\ InSeq(c1.ret[1], params.pn_leaf_list)
                THEN assigning_ibgp_interface_loop(
                         assigning_ibgp_interface_pair(
                             c1, cluster_list[i],
                             static_part \o Str((subnet_count * 4) + 1) \o "/" \o Str(30),
                             static_part \o Str((subnet_count * 4) + 2) \o "/" \o Str(30),
                             c1.ret[1]),
                         cluster_list, i + 1, static_part, subnet_count + 1)
                ELSE assigning_ibgp_interface_loop(c1, cluster_list, i + 1, static_part,
                                                   subnet_count))

StaticPart(address) == address[1] \o "." \o address[2] \o "." \o address[3] \o "."

assigning_ibgp_interface(c) ==
    Then(run_cli(Enter(c, "assigning_ibgp_interface"),
                 pn_cli \o <<"cluster-show", "format", "name", "no-show-headers">>),
         LAMBDA c1 :
           IF Len(c1.ret) > 0 /\ c1.ret[1] # "Success"
           THEN assigning_ibgp_interface_loop(
                    c1, c1.ret, 1, StaticPart(Split(params.pn_ibgp_ip_range, ".")), 0)
           ELSE c1)

----------------------------------------------------------------------------
(* eBGP neighbours over the L3 ports.                                      *)

(* for cluster in cluster_list: if switch[0] in cluster: ... break *)
Weight(switch, cluster_list) ==
    IF \E k \in 1..Len(cluster_list) : Contains(switch[1], cluster_list[k])
    THEN <<"weight", "100", "allowas-in">>
    ELSE <<>>

bgp_neighbor_add(c, vrouter, switch, ip_hostname, bgp_hostname) ==
    IF InSeq(switch[1], params.pn_leaf_list)
    THEN Then(run_cli(c, pn_cli \o <<"cluster-show", "format", "name", "no-show-headers">>),
              LAMBDA c1 :
                IfSuccess(run_cli(c1, pn_cli \o <<"vrouter-bgp-add", "vrouter-name", vrouter,
                                                  "neighbor", ip_hostname, "remote-as",
                                                  bgp_hostname[1]>>
                                        \o (IF params.pn_bfd THEN <<"bfd">> ELSE <<>>)
                                        \o Weight(switch, c1.ret))))
    ELSE IfSuccess(run_cli(c, pn_cli \o <<"vrouter-bgp-add", "vrouter-name", vrouter,
                                          "neighbor", ip_hostname, "remote-as",
                                          bgp_hostname[1]>>
                                \o (IF params.pn_bfd THEN <<"bfd">> ELSE <<>>)))

(* The neighbour added whatever vrouter-bgp-show lists. *)
bgp_neighbor_unchecked(c, vrouter, switch, ip_hostname, bgp_hostname) ==
    Then(run_cli(c, pn_cli \o <<"vrouter-bgp-show", "remote-as", bgp_hostname[1], "neighbor",
                                ip_hostname, "format", "switch", "no-show-headers">>),
         LAMBDA c6 : bgp_neighbor_add(c6, vrouter, switch, ip_hostname, bgp_hostname))

bgp_neighbor_check(c, vrouter, switch, ip_hostname, bgp_hostname) ==
    Then(run_cli(c, pn_cli \o <<"vrouter-bgp-show", "remote-as", bgp_hostname[1], "neighbor",
                                ip_hostname, "format", "switch", "no-show-headers">>),
         LAMBDA c6 :
           IF InSeq(vrouter, c6.ret) THEN Flag(c6, FALSE)
           ELSE bgp_neighbor_add(c6, vrouter, switch, ip_hostname, bgp_hostname))

bgp_neighbor_ip(c, vrouter, switch, ip_hostname_subnet, bgp_hostname) ==
    IF ip_hostname_subnet = <<>> THEN Crash(c)
    ELSE bgp_neighbor_check(c, vrouter, switch, Split(ip_hostname_subnet[1], "/")[1],
                            bgp_hostname)

bgp_neighbor_port(c, vrouter, switch, port) ==
    Then(run_cli(c, pn_cli \o <<"switch", switch[1], "port-show", "port", port, "format",
                                "hostname", "no-show-headers">>),
         LAMBDA c1 :
    Then(run_cli(c1, pn_cli \o <<"vrouter-show", "location", c1.ret[1], "format", "bgp-as",
                                 "no-show-headers">>),
         LAMBDA c2 :
    Then(run_cli(c2, pn_cli \o <<"switch", switch[1], "port-show", "port", port, "format",
                                 "rport", "no-show-headers">>),
         LAMBDA c3 :
    Then(run_cli(c3, pn_cli \o <<"vrouter-show", "location", c1.ret[1], "format", "name",
                                 "no-show-headers">>),
         LAMBDA c4 :
    Then(run_cli(c4, pn_cli \o <<"vrouter-interface-show", "vrouter-name", c4.ret[1],
                                 "l3-port">> \o c3.ret \o <<"format", "ip",
                                 "no-show-headers">>),
         LAMBDA c5 :
           IF ~InSeq(c4.ret[1], c5.ret) THEN Crash(c5)
           ELSE bgp_neighbor_ip(c5, vrouter, switch, Remove(c5.ret, c4.ret[1]), c2.ret))))))

RECURSIVE bgp_neighbor_ports(_, _, _, _, _)
bgp_neighbor_ports(c, vrouter, switch, port_num, k) ==
    IF Halted(c) \/ k > Len(port_num) THEN c
    ELSE bgp_neighbor_ports(bgp_neighbor_port(c, vrouter, switch, port_num[k]),
                            vrouter, switch, port_num, k + 1)

bgp_neighbor_vrouter(c, vrouter, switch, port_num) ==
    IF ~InSeq(vrouter, port_num) THEN Crash(c)
    ELSE bgp_neighbor_ports(c, vrouter, switch, Remove(port_num, vrouter), 1)

RECURSIVE bgp_neighbor_loop(_, _, _, _)
bgp_neighbor_loop(c, vrouter_names, i, ord) ==
    IF Halted(c) \/ i > Len(vrouter_names) THEN c
    ELSE bgp_neighbor_loop(
             Then(run_cli(c, pn_cli \o <<"vrouter-show", "name", vrouter_names[i], "format",
                                         "location", "no-show-headers">>),
                  LAMBDA c1 :
             Then(run_cli(c1, pn_cli \o <<"vrouter-interface-show", "vrouter-name",
                                          vrouter_names[i], "format", "l3-port",
                                          "no-show-headers">>),
                  LAMBDA c2 :
                    bgp_neighbor_vrouter(c2, vrouter_names[i], c1.ret,
                                         ListSet(c2.ret, ord)))),
             vrouter_names, i + 1, ord)

bgp_neighbor(c, ord) ==
    Then(run_cli(Enter(c, "bgp_neighbor"),
                 pn_cli \o <<"vrouter-show", "format", "name", "no-show-headers">>),
         LAMBDA c1 : IF Len(c1.ret) > 0 THEN bgp_neighbor_loop(c1, c1.ret, 1, ord)
                     ELSE Flag(c1, FALSE))

----------------------------------------------------------------------------
(* OSPF over the L3 ports of the spines.                                   *)

configure_ospf_bfd_modify(c, vrouter, nic_interface) ==
    IF nic_interface = <<>> THEN Crash(c)
    ELSE run_cli(c, pn_cli \o <<"vrouter-interface-config-modify", "vrouter-name", vrouter,
                                "nic", nic_interface[1], "ospf-bfd", "enable">>)

configure_ospf_bfd(c, vrouter, ip, ord) ==
    Enter(
    Then(run_cli(Enter(c, "configure_ospf_bfd"),
                 pn_cli \o <<"vrouter-interface-show", "vrouter-name", vrouter, "ip", ip,
                             "format", "nic", "no-show-headers">>),
         LAMBDA c1 :
           IF ~InSeq(vrouter, c1.ret) THEN Crash(c1)
           ELSE configure_ospf_bfd_modify(c1, vrouter,
                                          Remove(ListSet(c1.ret, ord), vrouter))),
    c.fn)

(* ip.split('.') and str(ip[3]).split('/') *)
Octets(ip) == Split(ip, ".")

LastOctet(ip) == Split(Octets(ip)[4], "/")

(* The network with the last octet of the address as it is. *)
OspfNetworkUnrounded(ip) ==
    StaticPart(Octets(ip)) \o LastOctet(ip)[1] \o "/" \o LastOctet(ip)[2]

(* The network of an interface address: the last octet rounded down to a multiple of 4. *)
OspfNetwork(ip) ==
    StaticPart(Octets(ip))
      \o Str(ToInt(LastOctet(ip)[1]) - (ToInt(LastOctet(ip)[1]) % 4))
      \o "/" \o LastOctet(ip)[2]

IpLeaf(ip) == StaticPart(Octets(ip)) \o Str(ToInt(LastOctet(ip)[1]) - 1)

IpSpine(ip) == StaticPart(Octets(ip)) \o LastOctet(ip)[1]

(* The indexing of the parts finds them. *)
WellFormedIp(ip) == Len(Octets(ip)) >= 4 /\ Len(LastOctet(ip)) >= 2

ospf_neighbor_bfd(c, vrouter, ip, ord) ==
    IF params.pn_bfd THEN configure_ospf_bfd(c, vrouter, ip, ord) ELSE c

ospf_neighbor_add(c, vrouter_spine, vrouter_hostname, ip, ord) ==
    Then(run_cli(c, pn_cli \o <<"vrouter-ospf-show", "network", OspfNetwork(ip), "format",
                                "switch", "no-show-headers">>),
         LAMBDA c1 :
    Then(IF InSeq(vrouter_spine, c1.ret) THEN Flag(c1, FALSE)
         ELSE IfSuccess(run_cli(ospf_neighbor_bfd(c1, vrouter_spine, IpSpine(ip), ord),
                                pn_cli \o <<"vrouter-ospf-add", "vrouter-name", vrouter_spine,
                                            "network", OspfNetwork(ip), "ospf-area",
                                            params.pn_ospf_area_id>>)),
         LAMBDA c2 :
           IF InSeq(vrouter_hostname, c1.ret) THEN Flag(c2, FALSE)
           ELSE IfSuccess(run_cli(ospf_neighbor_bfd(c2, vrouter_hostname, IpLeaf(ip), ord),
                                  pn_cli \o <<"vrouter-ospf-add", "vrouter-name",
                                              vrouter_hostname, "network", OspfNetwork(ip),
                                              "ospf-area", params.pn_ospf_area_id>>))))

ospf_neighbor_ip(c, vrouter_spine, vrouter_hostname, ip, ord) ==
    IF ip = <<>> THEN Crash(c)
    ELSE IF ~WellFormedIp(ip[1]) THEN Crash(c)
    ELSE ospf_neighbor_add(c, vrouter_spine, vrouter_hostname, ip[1], ord)

ospf_neighbor_port(c, spine, vrouter_spine, port, ord) ==
    Then(run_cli(c, pn_cli \o <<"switch", spine, "port-show", "port", port, "format",
                                "hostname", "no-show-headers">>),
         LAMBDA c1 :
    Then(run_cli(c1, pn_cli \o <<"vrouter-show", "location", c1.ret[1], "format", "name",
                                 "no-show-headers">>),
         LAMBDA c2 :
    Then(run_cli(c2, pn_cli \o <<"vrouter-interface-show", "vrouter-name", vrouter_spine,
                                 "l3-port", port, "format", "ip", "no-show-headers">>),
         LAMBDA c3 :
           IF ~InSeq(vrouter_spine, c3.ret) THEN Crash(c3)
           ELSE ospf_neighbor_ip(c3, vrouter_spine, c2.ret[1],
                                 Remove(ListSet(c3.ret, ord), vrouter_spine), ord))))

RECURSIVE ospf_neighbor_ports(_, _, _, _, _, _)
ospf_neighbor_ports(c, spine, vrouter_spine, port_list, k, ord) ==
    IF Halted(c) \/ k > Len(port_list) THEN c
    ELSE ospf_neighbor_ports(ospf_neighbor_port(c, spine, vrouter_spine, port_list[k], ord),
                             spine, vrouter_spine, port_list, k + 1, ord)

ospf_neighbor_spine(c, spine, vrouter_spine, port_list, ord) ==
    IF ~InSeq(vrouter_spine, port_list) THEN Crash(c)
    ELSE ospf_neighbor_ports(c, spine, vrouter_spine, Remove(port_list, vrouter_spine), 1, ord)

RECURSIVE ospf_neighbor_loop(_, _, _, _)
ospf_neighbor_loop(c, spine_list, i, ord) ==
    IF Halted(c) \/ i > Len(spine_list) THEN c
    ELSE ospf_neighbor_loop(
             Then(run_cli(c, pn_cli \o <<"vrouter-show", "location", spine_list[i], "format",
                                         "name", "no-show-headers">>),
                  LAMBDA c1 :
             Then(run_cli(c1, pn_cli \o <<"vrouter-interface-show", "vrouter-name",
                                          c1.ret[1], "format", "l3-port",
                                          "no-show-headers">>),
                  LAMBDA c2 :
                    ospf_neighbor_spine(c2, spine_list[i], c1.ret[1],
                                        ListSet(c2.ret, ord), ord))),
             spine_list, i + 1, ord)

ospf_neighbor(c, ord) ==
    IF Len(params.pn_spine_list) > 0
    THEN ospf_neighbor_loop(Enter(c, "ospf_neighbor"), params.pn_spine_list, 1, ord)
    ELSE Flag(Enter(c, "ospf_neighbor"), FALSE)

----------------------------------------------------------------------------
(* main: the steps in the order main calls them, one action per step.      *)

(* The steps with the AS numbers assigned before the leaf clusters are made. *)
MainSequenceSwapped(protocol) ==
    IF protocol = "ebgp"
    THEN <<"assigning_bgp_as", "create_leaf_cluster", "bgp_redistribute", "bgp_maxpath",
           "bgp_neighbor", "assign_router_id", "assigning_ibgp_interface">>
    ELSE IF protocol = "ospf" THEN <<"ospf_redistribute", "ospf_neighbor">>
    ELSE <<>>

MainSequence(protocol) ==
    IF protocol = "ebgp"
    THEN <<"create_leaf_cluster", "assigning_bgp_as", "bgp_redistribute", "bgp_maxpath",
           "bgp_neighbor", "assign_router_id", "assigning_ibgp_interface">>
    ELSE IF protocol = "ospf" THEN <<"ospf_neighbor", "ospf_redistribute">>
    ELSE <<>>

Sequel(step) ==
    LET seq == MainSequence(params.pn_routing_protocol)
        k == CHOOSE i \in 1..Len(seq) : seq[i] = step
    IN  IF k < Len(seq) THEN seq[k + 1] ELSE "exit_json"

(* The value of the flag recorded last. *)
LastChanged(flags) == IF flags # <<>> /\ flags[Len(flags)] THEN TRUE ELSE FALSE

AnyChanged(flags) == IF InSeq(TRUE, flags) THEN TRUE ELSE FALSE

(* The payload with changed=True whatever the flags. *)
SuccessPayloadChanged(flags) ==
    [error |-> "0", failed |-> FALSE, msg |-> "eBGP/OSPF setup completed successfully.",
     changed |-> TRUE]

(* The payload of the exit_json that ends main (its stdout text is left out). *)
SuccessPayload(flags) ==
    [error |-> "0", failed |-> FALSE, msg |-> "eBGP/OSPF setup completed successfully.",
     changed |-> AnyChanged(flags)]

(* The greatest command of a step whose answer is perturbed. *)
MaxFaultAt == 6

(* The answers of a step the cli may perturb: one answer, in the first run. *)
Faults ==
    IF perturbed \/ rerun THEN {NoFault}
    ELSE {NoFault}
      \cup {[at |-> i, kind |-> k, rc |-> r] :
              i \in 1..MaxFaultAt, k \in {"error", "warn"}, r \in {0, 1}}
      \cup {[at |-> i, kind |-> "text", rc |-> 0] : i \in 1..MaxFaultAt}

StepCtx(f) ==
    [fab |-> fab, log |-> <<>>, marks |-> <<>>, flags |-> CHANGED_FLAG, pay |-> payloads,
     st |-> "run", ret |-> <<>>, n |-> 0, fault |-> f, fn |-> "main", loc |-> <<>>,
     hit |-> FALSE]

(* The commands that create or change configuration. *)
Configuring == {"cluster-create", "vlan-create", "vrouter-interface-add", "vrouter-bgp-add",
                "vrouter-ospf-add", "vrouter-modify"}

(* The cli has carried out one of them and has reported no error. *)
Applied(e) == Verb(Body(e.argv)) \in Configuring /\ e.err = ""

(* The step has run to c under the perturbation f, which took place. *)
Commit(c, f, step) ==
    /\ (f = NoFault \/ c.hit)
    /\ fab' = c.fab
    /\ log' = c.log
    /\ marks' = c.marks
    /\ CHANGED_FLAG' = c.flags
    /\ payloads' = c.pay
    /\ calls' = Append(calls, step)
    /\ pc' = IF c.st = "run" THEN "return" ELSE IF c.st = "exit" THEN "done" ELSE "crashed"
    /\ perturbed' = (perturbed \/ c.hit)
    /\ flagged' = (flagged \/ \E k \in (Len(CHANGED_FLAG) + 1)..Len(c.flags) : c.flags[k])
    /\ mutated' = (mutated \/ \E k \in 1..Len(c.log) : Applied(c.log[k]))
    /\ UNCHANGED <<params, rerun>>

(* The orders in which Python may list a set. *)
MaxRot == 1

Orders == [rot : 0..MaxRot, rev : BOOLEAN]

Main ==
    /\ pc = "main"
    /\ CHANGED_FLAG' = <<>>
    /\ pc' = IF MainSequence(params.pn_routing_protocol) = <<>> THEN "exit_json"
             ELSE MainSequence(params.pn_routing_protocol)[1]
    /\ UNCHANGED <<params, fab, log, marks, payloads, calls, perturbed, rerun, flagged, mutated>>

(* A step has returned to main, which goes on to the step that follows it. *)
Return ==
    /\ pc = "return"
    /\ pc' = Sequel(calls[Len(calls)])
    /\ log' = <<>>
    /\ marks' = <<>>
    /\ UNCHANGED <<params, fab, CHANGED_FLAG, payloads, calls, perturbed, rerun, flagged, mutated>>

CreateLeafCluster ==
    /\ pc = "create_leaf_cluster"
    /\ \E ord \in Orders : \E f \in Faults :
         Commit(create_leaf_cluster(StepCtx(f), ord), f, "create_leaf_cluster")

AssigningBgpAs ==
    /\ pc = "assigning_bgp_as"
    /\ \E f \in Faults :
         Commit(assigning_bgp_as(StepCtx(f), params.pn_bgp_as_range), f, "assigning_bgp_as")

BgpRedistribute ==
    /\ pc = "bgp_redistribute"
    /\ \E f \in Faults :
         Commit(bgp_redistribute(StepCtx(f), params.pn_bgp_redistribute), f,
                "bgp_redistribute")

BgpMaxpath ==
    /\ pc = "bgp_maxpath"
    /\ \E f \in Faults :
         Commit(bgp_maxpath(StepCtx(f), params.pn_bgp_maxpath), f, "bgp_maxpath")

BgpNeighbor ==
    /\ pc = "bgp_neighbor"
    /\ \E ord \in Orders : \E f \in Faults :
         Commit(bgp_neighbor(StepCtx(f), ord), f, "bgp_neighbor")

AssignRouterId ==
    /\ pc = "assign_router_id"
    /\ \E f \in Faults : Commit(assign_router_id(StepCtx(f)), f, "assign_router_id")

AssigningIbgpInterface ==
    /\ pc = "assigning_ibgp_interface"
    /\ \E f \in Faults :
         Commit(assigning_ibgp_interface(StepCtx(f)), f, "assigning_ibgp_interface")

OspfNeighbor ==
    /\ pc = "ospf_neighbor"
    /\ \E ord \in Orders : \E f \in Faults :
         Commit(ospf_neighbor(StepCtx(f), ord), f, "ospf_neighbor")

OspfRedistribute ==
    /\ pc = "ospf_redistribute"
    /\ \E f \in Faults : Commit(ospf_redistribute(StepCtx(f)), f, "ospf_redistribute")

ExitJson ==
    /\ pc = "exit_json"
    /\ payloads' = Append(payloads, SuccessPayload(CHANGED_FLAG))
    /\ pc' = "done"
    /\ UNCHANGED <<params, fab, log, marks, CHANGED_FLAG, calls, perturbed, rerun, flagged, mutated>>

(* The module has ended with its success payload and main is called once   *)
(* more on the fabric the run has left, in the interpreter that holds      *)
(* CHANGED_FLAG, with the same routing protocol or with none.              *)
Rerun ==
    /\ pc = "done"
    /\ ~rerun
    /\ payloads # <<>>
    /\ ~payloads[Len(payloads)].failed
    /\ \E protocol \in {params.pn_routing_protocol, "None"} :
         params' = [params EXCEPT !.pn_routing_protocol = protocol]
    /\ rerun' = TRUE
    /\ pc' = "main"
    /\ payloads' = <<>>
    /\ calls' = <<>>
    /\ log' = <<>>
    /\ marks' = <<>>
    /\ flagged' = FALSE
    /\ mutated' = FALSE
    /\ UNCHANGED <<fab, CHANGED_FLAG, perturbed>>

----------------------------------------------------------------------------
(* The fabrics and parameters a run starts from.                           *)

Vr(sw) == sw \o "-vrouter"

AutoName(n1, n2) == n1 \o "-to-" \o n2 \o "-cluster"

Cluster(name, n1, n2) == [name |-> name, n1 |-> n1, n2 |-> n2]

(* The L3 links: every spine to every leaf, numbered spine by spine. *)
LinkNo(spines, leaves, i, j) == ((i - 1) * Len(leaves)) + j

(* The last octet of the spine's address on a link. *)
SpineOctet(x, k) == (x + (4 * (k - 1))) % 256

LeafOctet(x, k) ==
    LET o == SpineOctet(x, k)
    IN  (o - (o % 4)) + (IF o % 4 = 1 THEN 2 ELSE 1)

LinkIp(k, octet, mask) == "10.0." \o Str(k) \o "." \o Str(octet) \o "/" \o mask

SpineIfs(spines, leaves, hosts, x, mask) ==
    Flat([i \in 1..Len(spines) |->
        IF spines[i] \notin hosts THEN <<>>
        ELSE [j \in 1..Len(leaves) |->
               LET k == LinkNo(spines, leaves, i, j)
               IN  [vr |-> Vr(spines[i]), ip |-> LinkIp(k, SpineOctet(x, k), mask),
                    vlan |-> "", port |-> Str(j), nic |-> "eth" \o Str(j), bfd |-> FALSE]]])

LeafIfs(spines, leaves, hosts, x, mask) ==
    Flat([j \in 1..Len(leaves) |->
        IF leaves[j] \notin hosts THEN <<>>
        ELSE [i \in 1..Len(spines) |->
               LET k == LinkNo(spines, leaves, i, j)
               IN  [vr |-> Vr(leaves[j]), ip |-> LinkIp(k, LeafOctet(x, k), mask),
                    vlan |-> "", port |-> Str(48 + i), nic |-> "eth" \o Str(48 + i),
                    bfd |-> FALSE]]])

Ports(spines, leaves) ==
    Flat([i \in 1..Len(spines) |-> [j \in 1..Len(leaves) |->
            [sw |-> spines[i], port |-> Str(j), hostname |-> leaves[j],
             rport |-> Str(48 + i)]]])
    \o Flat([j \in 1..Len(leaves) |-> [i \in 1..Len(spines) |->
            [sw |-> leaves[j], port |-> Str(48 + i), hostname |-> spines[i],
             rport |-> Str(j)]]])

Range(s) == {s[i] : i \in 1..Len(s)}

(* Leaves are wired in pairs (1-2, 3-4, ...) by two links, and to every spine. *)
Peer(leaves, j) ==
    LET m == IF j % 2 = 1 THEN j + 1 ELSE j - 1
    IN  IF m <= Len(leaves) THEN <<leaves[m], leaves[m]>> ELSE <<>>

Lldp(spines, leaves) ==
    [sw \in Range(spines) \cup Range(leaves) |->
        IF sw \in Range(spines) THEN leaves
        ELSE spines \o Peer(leaves, CHOOSE j \in 1..Len(leaves) : leaves[j] = sw)]

Fabric(spines, leaves, clusters, hosts, x, mask) ==
    [switches |-> Range(spines) \cup Range(leaves),
     vrouters |-> [i \in 1..Len(hosts) |->
                     [name |-> Vr(hosts[i]), loc |-> hosts[i], as |-> "", rid |-> "",
                      redis |-> "", maxp |-> "", ospfr |-> ""]],
     clusters |-> clusters,
     lldp |-> Lldp(spines, leaves),
     vlans |-> [sw \in Range(spines) \cup Range(leaves) |-> <<"1">>],
     ifs |-> SpineIfs(spines, leaves, Range(hosts), x, mask)
               \o LeafIfs(spines, leaves, Range(hosts), x, mask),
     loops |-> [i \in 1..Len(hosts) |-> [vr |-> Vr(hosts[i]), ip |-> "10.255.0." \o Str(i)]],
     ports |-> Ports(spines, leaves),
     bgp |-> {},
     ospf |-> {}]

Params(protocol, spines, leaves, bfd, as_range, area) ==
    [pn_cliusername |-> "u", pn_clipassword |-> "p", pn_spine_list |-> spines,
     pn_leaf_list |-> leaves, pn_bgp_as_range |-> as_range,
     pn_bgp_redistribute |-> "connected", pn_bgp_maxpath |-> "16", pn_bfd |-> bfd,
     pn_ibgp_ip_range |-> "75.75.75.0/30", pn_ibgp_vlan |-> "4040",
     pn_ospf_area_id |-> area, pn_routing_protocol |-> protocol]

Leaves4 == <<"l1", "l2", "l3", "l4">>

Leaves2 == <<"l1", "l2">>

(* The clusters a fabric of four leaves may hold before the run: made by an *)
(* earlier run (named <node1>-to-<node2>-cluster) or by hand (any name).    *)
ClusterSetups4 ==
    { <<>>,
      <<Cluster(AutoName("l1", "l2"), "l1", "l2")>>,
      <<Cluster(AutoName("l2", "l1"), "l2", "l1")>>,
      <<Cluster("pod1", "l1", "l2")>>,
      <<Cluster(AutoName("l1", "l2"), "l1", "l2"), Cluster(AutoName("l3", "l4"), "l3", "l4")>>,
      <<Cluster(AutoName("l3", "l4"), "l3", "l4"), Cluster(AutoName("l1", "l2"), "l1", "l2")>>,
      <<Cluster("pod1", "l1", "l2"), Cluster(AutoName("l3", "l4"), "l3", "l4")>>,
      <<Cluster(AutoName("l1", "l2"), "l3", "l4")>> }

Leaves3 == <<"l1", "l2", "l3">>

(* Three leaves wired to each other: every leaf has two leaves for neighbours. *)
Lldp3 ==
    [sw \in {"s1", "l1", "l2", "l3"} |->
        IF sw = "s1" THEN Leaves3
        ELSE IF sw = "l1" THEN <<"s1", "l2", "l3">>
        ELSE IF sw = "l2" THEN <<"s1", "l1", "l3">>
        ELSE <<"s1", "l1", "l2">>]

ClusterSetups3 == { <<>>, <<Cluster(AutoName("l2", "l3"), "l2", "l3")>> }

(* The switches that host a vrouter, in the order vrouter-show lists them. *)
HostOrders4 ==
    { <<"s1", "l1", "l2", "l3", "l4">>,
      <<"l4", "l3", "l2", "l1", "s1">>,
      <<"l1", "l3", "s1", "l2", "l4">> }

ClusterSetups2 ==
    { <<>>,
      <<Cluster(AutoName("s1", "s2"), "s1", "s2"), Cluster(AutoName("l1", "l2"), "l1", "l2")>>,
      <<Cluster("pod1", "l2", "l1"), Cluster("spines", "s1", "s2")>> }

HostOrders2 ==
    { <<"s1", "s2", "l1", "l2">>, <<"l2", "s2", "l1">>, <<>> }

(* The last octet of the first spine address (the next link's is 4 more). *)
SpineOctets == {0, 1, 2, 3, 253, 254}

Setup(p, f) == [params |-> p, fab |-> f]

Setups ==
    { Setup(Params("ebgp", <<"s1">>, Leaves4, FALSE, "65000", "0"),
            Fabric(<<"s1">>, Leaves4, cl, hosts, 2, "30")) :
        cl \in ClusterSetups4, hosts \in HostOrders4 }
    \cup
    { Setup(Params("ebgp", <<"s1">>, Leaves3, FALSE, "65000", "0"),
            [Fabric(<<"s1">>, Leaves3, cl, <<"s1", "l1", "l2", "l3">>, 2, "30")
               EXCEPT !.lldp = Lldp3]) :
        cl \in ClusterSetups3 }
    \cup
    { Setup(Params("ebgp", <<"s1", "s2">>, Leaves2, bfd, as_range, "0"),
            Fabric(<<"s1", "s2">>, Leaves2, cl, hosts, 2, "30")) :
        cl \in ClusterSetups2, hosts \in HostOrders2, bfd \in BOOLEAN,
        as_range \in {"65000", "64512"} }
    \cup
    { Setup(Params("ospf", spines, Leaves2, bfd, "65000", area),
            Fabric(spines, Leaves2, <<>>, spines \o Leaves2, x, mask)) :
        spines \in {<<"s1">>, <<"s1", "s2">>}, bfd \in BOOLEAN, area \in {"0", "51"},
        x \in SpineOctets, mask \in {"30"} }
    \cup
    { Setup(Params("None", <<"s1">>, Leaves2, FALSE, "65000", "0"),
            Fabric(<<"s1">>, Leaves2, cl, <<"s1", "l1", "l2">>, 2, "30")) :
        cl \in {<<>>, <<Cluster("pod1", "l1", "l2")>>} }

Init ==
    /\ \E s \in Setups : params = s.params /\ fab = s.fab
    /\ log = <<>>
    /\ marks = <<>>
    /\ CHANGED_FLAG = <<>>
    /\ pc = "main"
    /\ payloads = <<>>
    /\ calls = <<>>
    /\ perturbed = FALSE
    /\ rerun = FALSE
    /\ flagged = FALSE
    /\ mutated = FALSE

Next ==
    \/ Main
    \/ Return
    \/ CreateLeafCluster
    \/ AssigningBgpAs
    \/ BgpRedistribute
    \/ BgpMaxpath
    \/ BgpNeighbor
    \/ AssignRouterId
    \/ AssigningIbgpInterface
    \/ OspfNeighbor
    \/ OspfRedistribute
    \/ ExitJson
    \/ Rerun

Spec == Init /\ [][Next]_vars

----------------------------------------------------------------------------
(* Reading the record of a step: the commands it ran, the flags it set.    *)

Cmd(e) == Body(e.argv)

Is(e, verb) == Verb(Cmd(e)) = verb

(* The value a command gives a key (the filters of a show end at "format"). *)
Word(e, key) == Arg(Filters(Cmd(e)), key)

Completed(step) == pc = "return" /\ calls # <<>> /\ calls[Len(calls)] = step

Succeeded == pc = "done" /\ payloads # <<>> /\ ~payloads[Len(payloads)].failed

OnLeaf(sw) == InSeq(sw, params.pn_leaf_list)

OnSpine(sw) == InSeq(sw, params.pn_spine_list)

Hosted(sw) == \E i \in 1..Len(fab.vrouters) : fab.vrouters[i].loc = sw

AsOf(sw) == fab.vrouters[CHOOSE i \in 1..Len(fab.vrouters) : fab.vrouters[i].loc = sw].as

LeafPair(cl) == OnLeaf(cl.n1) /\ OnLeaf(cl.n2) /\ Hosted(cl.n1) /\ Hosted(cl.n2)

(* The last command before the i-th of the log that P holds of, 0 if none. *)
LastBefore(i, P(_)) ==
    IF \E j \in 1..(i - 1) : P(log[j])
    THEN CHOOSE j \in 1..(i - 1) : P(log[j]) /\ \A k \in (j + 1)..(i - 1) : ~P(log[k])
    ELSE 0

----------------------------------------------------------------------------
(* C1: when assigning_bgp_as has run, the two vrouters of a leaf cluster   *)
(* whose switches both host one carry the same bgp-as, whatever the order  *)
(* of the vrouters and the name of the cluster.                            *)
C1_ClusterSharesAs ==
    (Completed("assigning_bgp_as") /\ ~perturbed) =>
        \A k \in 1..Len(fab.clusters) :
            LeafPair(fab.clusters[k]) => AsOf(fab.clusters[k].n1) = AsOf(fab.clusters[k].n2)

----------------------------------------------------------------------------
IsAsWrite(e) == Is(e, "vrouter-modify") /\ HasKey(Cmd(e), "bgp-as")

AsWrites == {i \in 1..Len(log) : IsAsWrite(log[i])}

LeafWrites == {i \in AsWrites : OnLeaf(VrouterAt(fab, Arg(Cmd(log[i]), "name")).loc)}

(* The write for the vrouter of the loop comes right after the show of its *)
(* location; the writes for the peers of its clusters come after a show of *)
(* the cluster.                                                            *)
GroupHeads == {i \in LeafWrites : i > 1 /\ Is(log[i - 1], "vrouter-show")}

AsValue(i) == ToInt(Arg(Cmd(log[i]), "bgp-as"))

SameCluster(a, b) ==
    \E k \in 1..Len(fab.clusters) : {a, b} = {fab.clusters[k].n1, fab.clusters[k].n2}

(* C2: when assigning_bgp_as has run with base B, every spine vrouter has  *)
(* been written B and carries it; the first leaf group is written B+1 and  *)
(* every later group one more than the group before it, its peers the      *)
(* value of the group; leaf vrouters that end with one AS are of one       *)
(* cluster, and no leaf vrouter ends with B.                               *)
C2_AsPerLeafGroup ==
    Completed("assigning_bgp_as") =>
        /\ \A i \in AsWrites :
             OnSpine(VrouterAt(fab, Arg(Cmd(log[i]), "name")).loc)
                => Arg(Cmd(log[i]), "bgp-as") = params.pn_bgp_as_range
        /\ \A v \in 1..Len(fab.vrouters) :
             OnSpine(fab.vrouters[v].loc) =>
                /\ fab.vrouters[v].as = params.pn_bgp_as_range
                /\ \E i \in AsWrites : Arg(Cmd(log[i]), "name") = fab.vrouters[v].name
        /\ \A i \in GroupHeads :
             AsValue(i) = ToInt(params.pn_bgp_as_range)
                            + Cardinality({h \in GroupHeads : h <= i})
        /\ \A i \in LeafWrites \ GroupHeads :
             \E h \in GroupHeads :
                h < i /\ AsValue(i) = AsValue(h) /\ \A g \in GroupHeads : g < i => g <= h
        /\ \A v, w \in 1..Len(fab.vrouters) :
             (/\ v # w
              /\ OnLeaf(fab.vrouters[v].loc)
              /\ OnLeaf(fab.vrouters[w].loc)
              /\ fab.vrouters[v].as = fab.vrouters[w].as)
                => SameCluster(fab.vrouters[v].loc, fab.vrouters[w].loc)
        /\ \A v \in 1..Len(fab.vrouters) :
             OnLeaf(fab.vrouters[v].loc) => fab.vrouters[v].as # params.pn_bgp_as_range

(* Two leaf groups with a peer each and a spine have been written, in a    *)
(* fabric where the vrouter of a spine is not listed first.                *)
C2_Witness ==
    /\ Completed("assigning_bgp_as")
    /\ ~perturbed
    /\ Cardinality(GroupHeads) = 2
    /\ Cardinality(LeafWrites) = 4
    /\ Cardinality(AsWrites) = 5
    /\ ~OnSpine(fab.vrouters[1].loc)

----------------------------------------------------------------------------
(* The calls of vrouter_interface_ibgp_add in the step, read from the      *)
(* commands each call runs once: the switch of its vlan-show, the address  *)
(* of its vrouter-interface-show, the neighbour of its vrouter-bgp-show.   *)
IbgpRan(verb) ==
    LET Mine(e) == e.by = "vrouter_interface_ibgp_add" /\ Is(e, verb)
    IN  SelectSeq(log, Mine)

IbgpSwitch(j) == Cmd(IbgpRan("vlan-show")[j])[2]

IbgpAddress(j) == Word(IbgpRan("vrouter-interface-show")[j], "ip")

IbgpNeighbor(j) == Word(IbgpRan("vrouter-bgp-show")[j], "neighbor")

(* The leaf clusters in the order cluster-show lists the clusters. *)
LeafClusters ==
    LET Leaf(cl) == OnLeaf(cl.n1) /\ ~OnSpine(cl.n1)
    IN  SelectSeq(fab.clusters, Leaf)

IbgpPrefix ==
    LET o == Split(params.pn_ibgp_ip_range, ".")
    IN  o[1] \o "." \o o[2] \o "." \o o[3] \o "."

(* C3: when assigning_ibgp_interface has run, the k-th leaf cluster        *)
(* (k = 0, 1, ...) has had <prefix>.(4k+1)/30 handed to its node 1 and     *)
(* <prefix>.(4k+2)/30 to its node 2, each with the address of the other as *)
(* neighbour; no address is handed out twice and the other clusters get    *)
(* none.                                                                   *)
C3_IbgpBlocks ==
    Completed("assigning_ibgp_interface") =>
        /\ Len(IbgpRan("vlan-show")) = 2 * Len(LeafClusters)
        /\ Len(IbgpRan("vrouter-interface-show")) = 2 * Len(LeafClusters)
        /\ Len(IbgpRan("vrouter-bgp-show")) = 2 * Len(LeafClusters)
        /\ \A k \in 0..(Len(LeafClusters) - 1) :
             /\ IbgpSwitch((2 * k) + 1) = LeafClusters[k + 1].n1
             /\ IbgpAddress((2 * k) + 1) = IbgpPrefix \o Str((4 * k) + 1) \o "/30"
             /\ IbgpNeighbor((2 * k) + 1) = IbgpPrefix \o Str((4 * k) + 2)
             /\ IbgpSwitch((2 * k) + 2) = LeafClusters[k + 1].n2
             /\ IbgpAddress((2 * k) + 2) = IbgpPrefix \o Str((4 * k) + 2) \o "/30"
             /\ IbgpNeighbor((2 * k) + 2) = IbgpPrefix \o Str((4 * k) + 1)
        /\ \A i, j \in 1..(2 * Len(LeafClusters)) :
             i # j => IbgpAddress(i) # IbgpAddress(j)

(* Two leaf clusters have been given their blocks. *)
C3_Witness ==
    /\ Completed("assigning_ibgp_interface")
    /\ ~perturbed
    /\ Len(LeafClusters) = 2
    /\ \E i \in 1..Len(log) :
         /\ Is(log[i], "vrouter-interface-add")
         /\ Arg(Cmd(log[i]), "ip") = IbgpPrefix \o "6/30"
         /\ log[i].err = ""

----------------------------------------------------------------------------
(* The checks that guard an add, and what each finds.                      *)

By(i, fn, verb) == log[i].by = fn /\ Is(log[i], verb)

FlaggedAt(i, fn, v) == \E m \in 1..Len(marks) : marks[m] = [n |-> i, v |-> v, by |-> fn]

(* The check found the item: FALSE is recorded right after it and TRUE is not. *)
RecordedFalse(i, fn) == FlaggedAt(i, fn, FALSE) /\ ~FlaggedAt(i, fn, TRUE)

IsLocationShow(e) == Is(e, "vrouter-show") /\ HasKey(Filters(Cmd(e)), "location")

IsNameShow(e) == Is(e, "vrouter-show") /\ HasKey(Filters(Cmd(e)), "name")

(* The vrouter bgp_neighbor is at: the one whose location it asked for last. *)
BgpVrouter(i) ==
    LET Mine(e) == e.by = "bgp_neighbor" /\ IsNameShow(e)
    IN  Word(log[LastBefore(i, Mine)], "name")

(* The vrouter vrouter_interface_ibgp_add is at: the one vrouter-show named last. *)
IbgpVrouter(i) ==
    LET Mine(e) == e.by = "vrouter_interface_ibgp_add" /\ IsLocationShow(e)
    IN  log[LastBefore(i, Mine)].out[1]

BgpListed(i) == By(i, "bgp_neighbor", "vrouter-bgp-show") /\ InSeq(BgpVrouter(i), log[i].out)

VlanListed(i) ==
    By(i, "vrouter_interface_ibgp_add", "vlan-show") /\ InSeq(params.pn_ibgp_vlan, log[i].out)

InterfaceListed(i) ==
    /\ By(i, "vrouter_interface_ibgp_add", "vrouter-interface-show")
    /\ InSeq(IbgpVrouter(i), log[i].out)

IbgpListed(i) ==
    /\ By(i, "vrouter_interface_ibgp_add", "vrouter-bgp-show")
    /\ InSeq(IbgpVrouter(i), log[i].out)

(* At the check of ospf_neighbor the two commands before it have named the *)
(* vrouter of the neighbour and the vrouter of the spine.                  *)
OspfSpineListed(i) ==
    /\ By(i, "ospf_neighbor", "vrouter-ospf-show")
    /\ InSeq(Word(log[i - 1], "vrouter-name"), log[i].out)

OspfHostListed(i) ==
    /\ By(i, "ospf_neighbor", "vrouter-ospf-show")
    /\ InSeq(log[i - 2].out[1], log[i].out)

(* The last command of the port the check at i belongs to. *)
PortEnd(i) ==
    CHOOSE e \in i..Len(log) :
        /\ \A j \in (i + 1)..e : ~Is(log[j], "port-show") /\ ~IsLocationShow(log[j])
        /\ (e = Len(log) \/ Is(log[e + 1], "port-show") \/ IsLocationShow(log[e + 1]))

AddsLater(i, verb, vrouter, key, val) ==
    \E j \in (i + 1)..Len(log) :
        /\ Is(log[j], verb)
        /\ Arg(Cmd(log[j]), "vrouter-name") = vrouter
        /\ Arg(Cmd(log[j]), key) = val

(* C4: when the show in front of an add lists the item (the vrouter for    *)
(* the neighbour or the network, the vlan, the vrouter for the interface), *)
(* the add is not issued for it and the flag recorded for it is False: in  *)
(* bgp_neighbor, in vrouter_interface_ibgp_add and in ospf_neighbor.       *)
C4_GuardedAdds ==
    \A i \in 1..Len(log) :
        /\ BgpListed(i) =>
             /\ ~AddsLater(i, "vrouter-bgp-add", BgpVrouter(i), "neighbor",
                           Word(log[i], "neighbor"))
             /\ RecordedFalse(i, "bgp_neighbor")
        /\ VlanListed(i) =>
             /\ \A j \in (i + 1)..Len(log) :
                  ~(Is(log[j], "vlan-create") /\ Cmd(log[j])[2] = Cmd(log[i])[2])
             /\ RecordedFalse(i, "vrouter_interface_ibgp_add")
        /\ InterfaceListed(i) =>
             /\ ~AddsLater(i, "vrouter-interface-add", IbgpVrouter(i), "ip", Word(log[i], "ip"))
             /\ RecordedFalse(i, "vrouter_interface_ibgp_add")
        /\ IbgpListed(i) =>
             /\ ~AddsLater(i, "vrouter-bgp-add", IbgpVrouter(i), "neighbor",
                           Word(log[i], "neighbor"))
             /\ RecordedFalse(i, "vrouter_interface_ibgp_add")
        /\ OspfSpineListed(i) =>
             /\ ~AddsLater(i, "vrouter-ospf-add", Word(log[i - 1], "vrouter-name"), "network",
                           Word(log[i], "network"))
             /\ RecordedFalse(i, "ospf_neighbor")
        /\ OspfHostListed(i) =>
             /\ ~AddsLater(i, "vrouter-ospf-add", log[i - 2].out[1], "network",
                           Word(log[i], "network"))
             /\ pc = "return" =>
                  /\ FlaggedAt(PortEnd(i), "ospf_neighbor", FALSE)
                  /\ \A m \in 1..Len(marks) :
                       marks[m].n \in i..PortEnd(i) /\ marks[m].v =>
                          \E k \in (m + 1)..Len(marks) :
                             marks[k].n \in i..PortEnd(i) /\ ~marks[k].v

(* bgp_neighbor has found a neighbour it had added in the run before. *)
C4_Witness ==
    /\ rerun
    /\ Completed("bgp_neighbor")
    /\ \E i \in 1..Len(log) : BgpListed(i) /\ RecordedFalse(i, "bgp_neighbor")

----------------------------------------------------------------------------
(* create_cluster has found the name in the list: the step has gone on and *)
(* the show of create_cluster is not followed by its cluster-create.       *)
FoundCluster(i) ==
    /\ pc = "return"
    /\ By(i, "create_cluster", "cluster-show")
    /\ ~(i < Len(log) /\ By(i + 1, "create_cluster", "cluster-create"))

(* C5: when create_cluster finds the name of the cluster in the list of    *)
(* node1 it issues no cluster-create and the flag it records is False.     *)
C5_ExistingClusterFlag ==
    \A i \in 1..Len(log) : FoundCluster(i) => RecordedFalse(i, "create_cluster")

----------------------------------------------------------------------------
(* The address the show in front of the check at g has listed for the spine. *)
SpineAddress(g) ==
    CHOOSE a \in Range(log[g - 1].out) : a # Word(log[g - 1], "vrouter-name")

(* net is a.b.c.(X - (X mod 4))/m for the address a.b.c.X/m. *)
IsNetworkOf(net, ip) ==
    LET a == Split(ip, ".")
        x == Split(a[4], "/")
        n == Split(net, ".")
        y == Split(n[4], "/")
    IN  /\ Len(n) = 4 /\ Len(y) = 2
        /\ n[1] = a[1] /\ n[2] = a[2] /\ n[3] = a[3]
        /\ y[2] = x[2]
        /\ ToInt(x[1]) \in 0..255
        /\ y[1] = Str(ToInt(x[1]) - (ToInt(x[1]) % 4))

IsOspfCheck(e) == e.by = "ospf_neighbor" /\ Is(e, "vrouter-ospf-show")

(* C6: in ospf_neighbor, for the spine address a.b.c.X/m, the network of   *)
(* the vrouter-ospf-show and of every vrouter-ospf-add that follows it is  *)
(* a.b.c.(X - (X mod 4))/m, and the ospf-area of every vrouter-ospf-add is *)
(* pn_ospf_area_id.                                                        *)
C6_OspfNetwork ==
    \A i \in 1..Len(log) :
        /\ IsOspfCheck(log[i]) => IsNetworkOf(Word(log[i], "network"), SpineAddress(i))
        /\ By(i, "ospf_neighbor", "vrouter-ospf-add") =>
             /\ LastBefore(i, IsOspfCheck) > 0
             /\ IsNetworkOf(Arg(Cmd(log[i]), "network"),
                            SpineAddress(LastBefore(i, IsOspfCheck)))
             /\ Arg(Cmd(log[i]), "ospf-area") = params.pn_ospf_area_id

(* A spine address whose last octet is no multiple of 4 has had its        *)
(* network added for the spine and for the neighbour, in an area other     *)
(* than the default.                                                       *)
C6_Witness ==
    /\ Completed("ospf_neighbor")
    /\ params.pn_ospf_area_id = "51"
    /\ \E i \in 1..Len(log) :
         /\ IsOspfCheck(log[i])
         /\ SpineAddress(i) = "10.0.1.3/30"
         /\ Cardinality({j \in (i + 1)..Len(log) :
                            /\ Is(log[j], "vrouter-ospf-add")
                            /\ log[j].err = ""
                            /\ Arg(Cmd(log[j]), "network") = "10.0.1.0/30"}) = 2

----------------------------------------------------------------------------
(* C7: a command that writes to stderr is the last of the run, whatever    *)
(* its stdout and its return code: run_cli does not return and the run     *)
(* ends with the failure payload that carries the stderr.                  *)
C7_StderrEndsRun ==
    \A i \in 1..Len(log) :
        log[i].err # "" =>
            /\ i = Len(log)
            /\ pc = "done"
            /\ Len(payloads) = 1
            /\ payloads[1].failed
            /\ ~payloads[1].changed
            /\ payloads[1].stderr = Strip(log[i].err)

----------------------------------------------------------------------------
(* run_cli reports the failure of a command that prints nothing and writes *)
(* to stderr.                                                              *)
Failed(e) == e.out = <<>> /\ e.err # ""

ShowVerbs == {"vrouter-show", "cluster-show", "vlan-show", "vrouter-interface-show",
              "vrouter-loopback-interface-show", "vrouter-bgp-show", "vrouter-ospf-show",
              "port-show", "lldp-show"}

(* What a command that was carried out has made is in the fabric. *)
InFabric(e) ==
    IF Is(e, "vlan-create") THEN InSeq(Arg(Cmd(e), "id"), fab.vlans[Cmd(e)[2]])
    ELSE IF Is(e, "cluster-create")
    THEN \E k \in 1..Len(fab.clusters) : fab.clusters[k].name = Arg(Cmd(e), "name")
    ELSE IF Is(e, "vrouter-interface-add")
    THEN \E k \in 1..Len(fab.ifs) :
            /\ fab.ifs[k].vr = Arg(Cmd(e), "vrouter-name")
            /\ fab.ifs[k].ip = Arg(Cmd(e), "ip")
    ELSE IF Is(e, "vrouter-bgp-add")
    THEN \E r \in fab.bgp :
            /\ r.vr = Arg(Cmd(e), "vrouter-name")
            /\ r.nbr = Arg(Cmd(e), "neighbor")
    ELSE IF Is(e, "vrouter-ospf-add")
    THEN \E r \in fab.ospf :
            /\ r.vr = Arg(Cmd(e), "vrouter-name")
            /\ r.net = Arg(Cmd(e), "network")
    ELSE IF Is(e, "vrouter-modify") /\ HasKey(Cmd(e), "bgp-as")
    THEN VrouterAt(fab, Arg(Cmd(e), "name")).as # ""
    ELSE TRUE

(* C8: the command whose failure run_cli reports is the last command of    *)
(* the run and the run is over with that one payload; nothing the run had  *)
(* carried out before is undone, and no command of the run is one that     *)
(* undoes.                                                                 *)
C8_FailureIsTerminal ==
    /\ \A i \in 1..Len(log) :
         /\ Verb(Cmd(log[i])) \in ShowVerbs \cup Mutating
         /\ Failed(log[i]) =>
              /\ i = Len(log)
              /\ pc = "done"
              /\ Len(payloads) = 1
              /\ payloads[1].failed
              /\ payloads[1].stderr = Strip(log[i].err)
    /\ (\E k \in 1..Len(payloads) : payloads[k].failed) =>
         /\ pc = "done"
         /\ Len(payloads) = 1
         /\ log # <<>>
         /\ Failed(log[Len(log)])
         /\ \A i \in 1..(Len(log) - 1) : log[i].err = "" => InFabric(log[i])

(* A command has failed after the step had created a cluster. *)
C8_Witness ==
    /\ pc = "done"
    /\ Len(payloads) = 1
    /\ payloads[1].failed
    /\ Len(log) >= 2
    /\ Failed(log[Len(log)])
    /\ \E i \in 1..(Len(log) - 1) :
         Is(log[i], "cluster-create") /\ log[i].err = "" /\ InFabric(log[i])

----------------------------------------------------------------------------
(* C9: the changed of the success payload is True exactly when a step of   *)
(* the run has recorded a True flag; the flags CHANGED_FLAG holds at the   *)
(* end are those of the run, whatever it held before main.                 *)
C9_ChangedIsAnyFlag ==
    Succeeded =>
        /\ payloads[Len(payloads)].changed = flagged
        /\ InSeq(TRUE, CHANGED_FLAG) = flagged

(* A second run has ended changed, the last flag it recorded being False. *)
C9_Witness ==
    /\ Succeeded
    /\ rerun
    /\ payloads[Len(payloads)].changed
    /\ CHANGED_FLAG # <<>>
    /\ ~CHANGED_FLAG[Len(CHANGED_FLAG)]

----------------------------------------------------------------------------
IsPrefix(s, t) == Len(s) <= Len(t) /\ s = SubSeq(t, 1, Len(s))

OspfCommand(e) ==
    \/ Verb(Cmd(e)) \in {"vrouter-ospf-show", "vrouter-ospf-add"}
    \/ HasKey(Cmd(e), "ospf-redistribute")
    \/ HasKey(Cmd(e), "ospf-bfd")

BgpOrClusterCommand(e) ==
    \/ Verb(Cmd(e)) \in {"vrouter-bgp-show", "vrouter-bgp-add", "cluster-show",
                         "cluster-create"}
    \/ HasKey(Cmd(e), "bgp-as")
    \/ HasKey(Cmd(e), "bgp-redistribute")
    \/ HasKey(Cmd(e), "bgp-max-paths")

----------------------------------------------------------------------------
IsLldpShow(e) == e.by = "create_leaf_cluster" /\ Is(e, "lldp-show")

IsClusterCreate(i) == By(i, "create_cluster", "cluster-create")

Node1(i) == Arg(Cmd(log[i]), "cluster-node-1")

Node2(i) == Arg(Cmd(log[i]), "cluster-node-2")

(* What leaf_no_cluster was told: the two lists of cluster nodes that open the step. *)
ClusteredAtStart(sw) == InSeq(sw, log[1].out) \/ InSeq(sw, log[2].out)

(* C11: every cluster-create of leaf_cluster_formation pairs two distinct  *)
(* switches of the leaf list that were in no cluster when the step began   *)
(* and are no spines, the second an LLDP neighbour of the first; no leaf   *)
(* is in two of the clusters the step creates.                             *)
C11_PairsUnclusteredLeaves ==
    /\ \A i \in 1..Len(log) :
         IsClusterCreate(i) =>
           /\ Node1(i) # Node2(i)
           /\ InSeq(Node1(i), params.pn_leaf_list)
           /\ InSeq(Node2(i), params.pn_leaf_list)
           /\ ~InSeq(Node1(i), params.pn_spine_list)
           /\ ~InSeq(Node2(i), params.pn_spine_list)
           /\ ~ClusteredAtStart(Node1(i))
           /\ ~ClusteredAtStart(Node2(i))
           /\ LastBefore(i, IsLldpShow) > 0
           /\ Cmd(log[LastBefore(i, IsLldpShow)])[2] = Node1(i)
           /\ InSeq(Node2(i), log[LastBefore(i, IsLldpShow)].out)
    /\ \A i, j \in 1..Len(log) :
         (i < j /\ IsClusterCreate(i) /\ IsClusterCreate(j)) =>
           {Node1(i), Node2(i)} \cap {Node1(j), Node2(j)} = {}

(* The step has made two clusters of four leaves. *)
C11_Witness ==
    /\ Completed("create_leaf_cluster")
    /\ Cardinality({i \in 1..Len(log) : IsClusterCreate(i) /\ log[i].err = ""}) = 2
    /\ Len(fab.clusters) = 2

----------------------------------------------------------------------------
(* The switch whose neighbours the lldp-show at g lists. *)
LldpOf(g) == Cmd(log[g])[2]

(* The leaves that have left the list of unclustered leaves before the     *)
(* lldp-show at g: the earlier node1s and the switches paired with them.   *)
PairedBefore(g) ==
    {LldpOf(j) : j \in {k \in 1..(g - 1) : IsLldpShow(log[k])}}
      \cup {Node2(j) : j \in {k \in 1..(g - 1) : IsClusterCreate(k)}}
      \cup {sw \in Range(params.pn_leaf_list) :
              \E j \in 1..(g - 1) :
                /\ By(j, "create_cluster", "cluster-show")
                /\ ~IsClusterCreate(j + 1)
                /\ InSeq(AutoName(LldpOf(j), sw), log[j].out)}

(* A neighbour the lldp-show at g reports that is a leaf still without a cluster. *)
StillUnclustered(g, sw) ==
    /\ InSeq(sw, params.pn_leaf_list)
    /\ ~InSeq(sw, params.pn_spine_list)
    /\ ~ClusteredAtStart(sw)
    /\ sw # LldpOf(g)
    /\ sw \notin PairedBefore(g)

FirstReported(g) ==
    log[g].out[CHOOSE k \in 1..Len(log[g].out) :
                  /\ StillUnclustered(g, log[g].out[k])
                  /\ \A m \in 1..(k - 1) : ~StillUnclustered(g, log[g].out[m])]

(* C12: the node1s are the unclustered leaves in the order of the leaf     *)
(* list, and the switch a node1 is put in a cluster with is the first of   *)
(* the neighbours, in the order lldp-show has reported them, that is a     *)
(* leaf still without a cluster.                                           *)
C12_GreedyInLldpOrder ==
    \A i \in 1..Len(log) :
        IsClusterCreate(i) =>
            /\ LastBefore(i, IsLldpShow) > 0
            /\ Node1(i) = LldpOf(LastBefore(i, IsLldpShow))
            /\ Node2(i) = FirstReported(LastBefore(i, IsLldpShow))

----------------------------------------------------------------------------
(* C16: main reports changed=True only when the run has executed a command *)
(* that creates or changes configuration (cluster-create, vlan-create,     *)
(* vrouter-interface-add, vrouter-bgp-add, vrouter-ospf-add,               *)
(* vrouter-modify) and the command returned without error; a run without   *)
(* such a command reports changed=False.                                   *)
C16_ChangedOnlyIfApplied ==
    Succeeded => (payloads[Len(payloads)].changed => mutated)

(* A first run has ended changed after it had made the two clusters. *)
C16_Witness ==
    /\ Succeeded
    /\ payloads[Len(payloads)].changed
    /\ mutated
    /\ Len(fab.clusters) = 2
    /\ ~rerun

----------------------------------------------------------------------------
(* The step fn has asked for the names of the vrouters and the cli has     *)
(* printed nothing, on stdout and on stderr.                               *)
NoVrouters(fn) ==
    /\ calls # <<>>
    /\ calls[Len(calls)] = fn
    /\ log # <<>>
    /\ log[1].by = fn
    /\ Is(log[1], "vrouter-show")
    /\ Filters(Cmd(log[1])) = <<"vrouter-show">>
    /\ log[1].out = <<>>
    /\ log[1].err = ""

(* C17: when vrouter-show lists no vrouter, assigning_bgp_as, bgp_neighbor *)
(* and assign_router_id record the flag False and run no other command.    *)
C17_NoVroutersBranch ==
    \A fn \in {"assigning_bgp_as", "bgp_neighbor", "assign_router_id"} :
        NoVrouters(fn) =>
            /\ Len(log) = 1
            /\ marks = <<[n |-> 1, v |-> FALSE, by |-> fn]>>

----------------------------------------------------------------------------
(* C18: a run that is over has reported a payload, the success payload of  *)
(* main or the failure payload of run_cli: no step ends the run in another *)
(* way, whatever the cli answers.                                          *)
C18_EndsWithPayload ==
    pc \in {"done", "crashed"} => (pc = "done" /\ Len(payloads) = 1)

----------------------------------------------------------------------------
(* C19: a second 'ebgp' run, with the same parameters, on the fabric that  *)
(* a successful first run left reports changed = False: it appends no True *)
(* to CHANGED_FLAG (flagged), whatever the first run has left in the list, *)
(* when the cli has answered every command of both runs as the fabric does.*)
C19_SecondRunUnchanged ==
    (rerun /\ Succeeded /\ ~perturbed /\ params.pn_routing_protocol = "ebgp") => ~flagged

----------------------------------------------------------------------------
(* ip is one of the two host addresses, a.b.c.(B + 1) and a.b.c.(B + 2),   *)
(* of the /30 block of the address a.b.c.X/m, B being X - (X mod 4).       *)
IsHostOfBlock(ip, address) ==
    LET a == Split(address, ".")
        x == ToInt(Split(a[4], "/")[1])
        b == x - (x % 4)
        static_part == a[1] \o "." \o a[2] \o "." \o a[3] \o "."
    IN  ip \in {static_part \o Str(b + 1), static_part \o Str(b + 2)}

(* The i-th command is the interface show of configure_ospf_bfd for the    *)
(* neighbour of the spine, in the iteration whose vrouter-ospf-show is g.  *)
IsLeafBfdShow(i, g) ==
    /\ By(i, "configure_ospf_bfd", "vrouter-interface-show")
    /\ g = LastBefore(i, IsOspfCheck)
    /\ g > 1
    /\ Word(log[i], "vrouter-name") # Word(log[g - 1], "vrouter-name")

(* C20: with pn_bfd, the address ip_leaf that ospf_neighbor hands to       *)
(* configure_ospf_bfd for the neighbour of a spine at a.b.c.X/m is a host  *)
(* address of the /30 block of the spine address: its last octet is        *)
(* non-negative, in the block that starts at X - (X mod 4), and neither    *)
(* the network nor the broadcast address of the block.                     *)
C20_LeafAddressInBlock ==
    \A i \in 1..Len(log) : \A g \in 1..Len(log) :
        IsLeafBfdShow(i, g) => IsHostOfBlock(Word(log[i], "ip"), SpineAddress(g))

----------------------------------------------------------------------------
(* The Ansible module ansible/library/pn_vlag.py: main builds one command  *)
(* line as a string, splits it into argv, runs it and reports.  A run of   *)
(* it uses params, log, payloads and pc; a parameter that is not supplied  *)
(* is the empty string.                                                    *)

(* shlex.split of a line without quotes: its words, the runs of characters *)
(* between blanks.                                                         *)
Blank(line, i) == SubSeq(line, i, i) = " "

WordStarts(line) ==
    {i \in 1..Len(line) : (~Blank(line, i)) /\ (i = 1 \/ Blank(line, i - 1))}

WordEnd(line, i) ==
    CHOOSE j \in i..Len(line) :
        /\ \A k \in i..j : ~Blank(line, k)
        /\ (j = Len(line) \/ Blank(line, j + 1))

(* The k-th of the places where a word starts. *)
WordStart(starts, k) == CHOOSE i \in starts : Cardinality({j \in starts : j <= i}) = k

WordFrom(line, i) == SubSeq(line, i, WordEnd(line, i))

WordsAt(line, starts) ==
    [k \in 1..Cardinality(starts) |-> WordFrom(line, WordStart(starts, k))]

ShlexSplit(line) == WordsAt(line, WordStarts(line))

(* str.rstrip("\r\n") *)
RECURSIVE Rstrip(_)
Rstrip(t) ==
    IF t # "" /\ SubSeq(t, Len(t), Len(t)) \in {"\n", "\r"}
    THEN Rstrip(SubSeq(t, 1, Len(t) - 1))
    ELSE t

VlagCli(p) ==
    IF p.pn_quiet
    THEN "/usr/bin/cli --quiet --user " \o p.pn_cliusername \o ":" \o p.pn_clipassword \o " "
    ELSE "/usr/bin/cli --user " \o p.pn_cliusername \o ":" \o p.pn_clipassword \o " "

(* vlag += <text> under "if <parameter>:" *)
Opt(value, text) == IF value # "" THEN text ELSE ""

Vlag(p) ==
    VlagCli(p)
      \o Opt(p.pn_vlagname, p.pn_vlagcommand \o " name " \o p.pn_vlagname)
      \o Opt(p.pn_vlaglport, " port " \o p.pn_vlaglport)
      \o Opt(p.pn_vlagpeerport, " peer-port " \o p.pn_vlagpeerport)
      \o Opt(p.pn_vlagmode, " mode " \o p.pn_vlagmode)
      \o Opt(p.pn_vlagpeerswitch, " peer-switch" \o p.pn_vlagpeerswitch)
      \o Opt(p.pn_vlagfailover, " " \o p.pn_vlagfailover)
      \o Opt(p.pn_vlaglacpmode, " lacp-mode " \o p.pn_vlaglacpmode)
      \o Opt(p.pn_vlaglacptimeout, " lacp-timeout" \o p.pn_vlaglacptimeout)
      \o Opt(p.pn_vlagfallback, " lacp-fallback " \o p.pn_vlagfallback)
      \o Opt(p.pn_vlagfallbacktimeout, " lacp-fallback-timeout " \o p.pn_vlagfallbacktimeout)

(* The optional parameters of p that are supplied. *)
Supplied(p) ==
    {k \in {"pn_vlagmode", "pn_vlagpeerswitch", "pn_vlagfailover", "pn_vlaglacpmode",
            "pn_vlaglacptimeout", "pn_vlagfallback", "pn_vlagfallbacktimeout"} : p[k] # ""}

(* The parameters AnsibleModule lets through: vlag-create needs both ports. *)
(* Of the other optional parameters none, one or all are supplied.         *)
VlagParams ==
    {p \in [pn_cliusername : {"admin"}, pn_clipassword : {"admin"},
            pn_vlagcommand : {"vlag-create", "vlag-delete"},
            pn_vlagname : {"vlag-1"},
            pn_vlaglport : {"", "trunk1"},
            pn_vlagpeerport : {"", "trunk2"},
            pn_vlagmode : {"", "active-active"},
            pn_vlagpeerswitch : {"", "spine02"},
            pn_vlagfailover : {"", "failover-move-L2"},
            pn_vlaglacpmode : {"", "active"},
            pn_vlaglacptimeout : {"", "slow"},
            pn_vlagfallback : {"", "bundled"},
            pn_vlagfallbacktimeout : {"", "50"},
            pn_quiet : BOOLEAN] :
        /\ p.pn_vlagcommand = "vlag-create" =>
             (p.pn_vlaglport # "" /\ p.pn_vlagpeerport # "")
        /\ Cardinality(Supplied(p)) \in {0, 1, 7}}

(* What the cli may print and what it may write to stderr. *)
VlagOut == {"", "Vlag vlag-1 created\n"}

VlagErr == {"", "vlag-create: vlag exists\r\n"}

VlagInit ==
    /\ params \in VlagParams
    /\ fab = <<>>
    /\ log = <<>>
    /\ marks = <<>>
    /\ CHANGED_FLAG = <<>>
    /\ pc = "main"
    /\ payloads = <<>>
    /\ calls = <<>>
    /\ perturbed = FALSE
    /\ rerun = FALSE
    /\ flagged = FALSE
    /\ mutated = FALSE

(* main up to response.communicate(): the command line is built and run. *)
VlagRun ==
    /\ pc = "main"
    /\ \E out \in VlagOut : \E err \in VlagErr :
         log' = <<[argv |-> ShlexSplit(Vlag(params)), vlag |-> Vlag(params),
                   out |-> out, err |-> err]>>
    /\ pc' = "communicate"
    /\ UNCHANGED <<params, fab, marks, CHANGED_FLAG, payloads, calls, perturbed, rerun,
                   flagged, mutated>>

(* The end of main: exit_json for stdout, else exit_json for stderr, else nothing. *)
VlagReport ==
    /\ pc = "communicate"
    /\ payloads' =
         IF log[1].out # ""
         THEN <<[vlagcmd |-> log[1].vlag, stdout |-> Rstrip(log[1].out), changed |-> TRUE]>>
         ELSE IF log[1].err # ""
         THEN <<[vlagcmd |-> log[1].vlag, stderr |-> Rstrip(log[1].err), changed |-> FALSE]>>
         ELSE <<>>
    /\ pc' = "done"
    /\ UNCHANGED <<params, fab, log, marks, CHANGED_FLAG, calls, perturbed, rerun, flagged,
                   mutated>>

VlagNext ==
    \/ VlagRun
    \/ VlagReport

VlagSpec == VlagInit /\ [][VlagNext]_vars

----------------------------------------------------------------------------
(* C13: a run of pn_vlag that has got the answer of the cli ends with      *)
(* exactly one payload, and the payload has the field changed, whatever    *)
(* of stdout and stderr is empty.                                          *)
C13_VlagOnePayload ==
    pc = "done" => (Len(payloads) = 1 /\ "changed" \in DOMAIN payloads[1])

(* C14: when the vlag command has written to stderr, the payload of the    *)
(* run carries that stderr and has changed False, whether or not the       *)
(* command has also printed to stdout.                                     *)
C14_VlagStderrReported ==
    (pc = "done" /\ log[1].err # "") =>
        /\ Len(payloads) = 1
        /\ "stderr" \in DOMAIN payloads[1]
        /\ payloads[1].stderr = Rstrip(log[1].err)
        /\ ~payloads[1].changed

(* The two tokens of a parameter that is supplied, none of one that is not. *)
Pair(keyword, value) == IF value # "" THEN <<keyword, value>> ELSE <<>>

VlagPrefix ==
    IF params.pn_quiet THEN <<"/usr/bin/cli", "--quiet", "--user", "admin:admin">>
    ELSE <<"/usr/bin/cli", "--user", "admin:admin">>

(* C15: the argv of pn_vlag is the authentication prefix, the verb, name   *)
(* and the vlag name, and then for each parameter that is supplied, in the *)
(* order port, peer-port, mode, peer-switch, failover, lacp-mode,          *)
(* lacp-timeout, lacp-fallback, lacp-fallback-timeout, its keyword and its *)
(* value as two tokens (the failover value is its own keyword).            *)
C15_VlagArgv ==
    pc # "main" =>
        log[1].argv =
            VlagPrefix \o <<params.pn_vlagcommand, "name", params.pn_vlagname>>
              \o Pair("port", params.pn_vlaglport)
              \o Pair("peer-port", params.pn_vlagpeerport)
              \o Pair("mode", params.pn_vlagmode)
              \o Pair("peer-switch", params.pn_vlagpeerswitch)
              \o (IF params.pn_vlagfailover # "" THEN <<params.pn_vlagfailover>> ELSE <<>>)
              \o Pair("lacp-mode", params.pn_vlaglacpmode)
              \o Pair("lacp-timeout", params.pn_vlaglacptimeout)
              \o Pair("lacp-fallback", params.pn_vlagfallback)
              \o Pair("lacp-fallback-timeout", params.pn_vlagfallbacktimeout)

====
